---- MODULE Spec2Model ----
(***************************************************************************)
(* Model of the Universal Algorithm prototype (js-poc-4):                  *)
(*   - TaskDecomposer: getSubtasksInOrder, getParallelSubtasks,            *)
(*     analyzeDecomposition, decompose (src/js-poc-4/src/core/decomposer.js)*)
(*   - SolutionSearcher.findSolution (src/unnamed/part_004)                *)
(*   - UniversalAlgorithm.solve (src/js-poc-4/src/orchestrator.js)         *)
(* A subtask id k stands for the string "subtask-k".                       *)
(***************************************************************************)
EXTENDS Integers, Sequences, FiniteSets, TLC

\* ------------------------------------------------------------------------
\* Bounds of the model
\* ------------------------------------------------------------------------
MaxSubtasks == 3

MaxDeps == 1

\* largest maxAttempts a SolutionSearcher is constructed with
MaxAttemptsBound == 3

\* most subtasks in a decomposition the LLM client answers solve() with
MaxSolveSubtasks == 2
MaxControlSubtasks == 1

\* most entries in a raw subtask list answered by llmClient.decomposeTask
MaxRawSubtasks == 2

\* most attempts of a findSolution invocation that runs beside another
MaxConcurrentAttempts == 2

\* most subtasks answered by decomposeAndCreateIssues to Orchestrator.execute
MaxExecuteSubtasks == 2

\* most subtask issues given to searchSolutionsForAllSubtasks
MaxBatchIssues == 2

\* latest Date.now() at which a RepositoryManager call starts, in seconds
MaxClockSeconds == 2

\* latest x-ratelimit-reset header value, in seconds
MaxResetSeconds == 3

\* TaskDecomposer.maxSubtasks of the default instance
DefaultMaxSubtasks == 10

Ids == 1..MaxSubtasks

\* null / undefined of the source
Null == "null"

\* ------------------------------------------------------------------------
\* Generic helpers
\* ------------------------------------------------------------------------
Range(s) == {s[i] : i \in 1..Len(s)}

\* all sequences over S of length n
SeqsOfLen(S, n) == [1..n -> S]

\* a JavaScript array without repeated entries
NoRepeat(s) == \A i, j \in 1..Len(s) : i # j => s[i] # s[j]

\* the dependency arrays of the inputs: at most MaxDeps ids, none repeated
DepLists == UNION {{d \in SeqsOfLen(Ids, n) : NoRepeat(d)} : n \in 0..MaxDeps}

\* The subtask arrays handed to the ordering functions: ids pairwise distinct
\* (the k-th subtask is "subtask-k"), dependencies may name ids that are not
\* in the array (an array shorter than MaxSubtasks).
SubtaskList(deps) == [i \in 1..Len(deps) |-> [id |-> i, dependencies |-> deps[i]]]

\* ------------------------------------------------------------------------
\* TaskDecomposer.getSubtasksInOrder
\* ------------------------------------------------------------------------
\* subtasks.find(s => s.id === depId): the position of the first match, 0 when
\* find returns undefined
Find(list, depId) ==
  IF \E i \in 1..Len(list) : list[i].id = depId
    THEN CHOOSE i \in 1..Len(list) :
           /\ list[i].id = depId
           /\ \A j \in 1..(i - 1) : list[j].id # depId
    ELSE 0

\* the closure state of getSubtasksInOrder; thrown = 0 while nothing is thrown,
\* else the id named by the circular-dependency error
NewOrderState == [ordered |-> <<>>, visited |-> {}, visiting |-> {}, thrown |-> 0]

RECURSIVE visit(_, _, _)
RECURSIVE visitDependencies(_, _, _, _)

\* visit without "visiting.delete(subtask.id)"
visit_noDelete(st, subtask, list) ==
  IF st.thrown # 0 THEN st
  ELSE IF subtask.id \in st.visiting THEN [st EXCEPT !.thrown = subtask.id]
  ELSE IF subtask.id \in st.visited THEN st
  ELSE LET entered == [st EXCEPT !.visiting = @ \cup {subtask.id}]
           after == visitDependencies(entered, subtask.dependencies, 1, list)
       IN IF after.thrown # 0 THEN after
          ELSE [after EXCEPT !.visited = @ \cup {subtask.id},
                             !.ordered = Append(@, subtask)]

visit(st, subtask, list) ==
  IF st.thrown # 0 THEN st
  ELSE IF subtask.id \in st.visiting THEN [st EXCEPT !.thrown = subtask.id]
  ELSE IF subtask.id \in st.visited THEN st
  ELSE LET entered == [st EXCEPT !.visiting = @ \cup {subtask.id}]
           after == visitDependencies(entered, subtask.dependencies, 1, list)
       IN IF after.thrown # 0 THEN after
          ELSE [after EXCEPT !.visiting = @ \ {subtask.id},
                             !.visited = @ \cup {subtask.id},
                             !.ordered = Append(@, subtask)]

visitDependencies(st, deps, k, list) ==
  IF k > Len(deps) \/ st.thrown # 0 THEN st
  ELSE LET depSubtask == Find(list, deps[k])
       IN visitDependencies(IF depSubtask = 0 THEN st ELSE visit(st, list[depSubtask], list),
                            deps, k + 1, list)

RECURSIVE visitAll(_, _, _)
RECURSIVE visitAll_backwards(_, _, _)

\* the loop "for (const subtask of subtasks) visit(subtask)" run from the
\* last subtask to the first
visitAll_backwards(st, k, list) ==
  IF k > Len(list) \/ st.thrown # 0 THEN st
  ELSE visitAll_backwards(visit(st, list[Len(list) + 1 - k], list), k + 1, list)

visitAll(st, k, list) ==
  IF k > Len(list) \/ st.thrown # 0 THEN st
  ELSE visitAll(visit(st, list[k], list), k + 1, list)

\* result of a call: either a returned value or a thrown circular-dependency
\* error with the id its message names
Returned(v) == [threw |-> FALSE, involving |-> 0, value |-> v]
Thrown(id) == [threw |-> TRUE, involving |-> id, value |-> <<>>]

Reverse(s) == [i \in 1..Len(s) |-> s[Len(s) + 1 - i]]

\* getSubtasksInOrder with "ordered.unshift(subtask)" for "ordered.push(subtask)"
getSubtasksInOrder_unshift(list) ==
  LET st == visitAll(NewOrderState, 1, list)
  IN IF st.thrown # 0 THEN Thrown(st.thrown) ELSE Returned(Reverse(st.ordered))

getSubtasksInOrder(list) ==
  LET st == visitAll(NewOrderState, 1, list)
  IN IF st.thrown # 0 THEN Thrown(st.thrown) ELSE Returned(st.ordered)

\* ------------------------------------------------------------------------
\* TaskDecomposer.getParallelSubtasks
\* ------------------------------------------------------------------------
\* parallelGroups.find(g => g.every(s => !subtask.dependencies.includes(s.id)))
GroupAccepts(group, subtask) ==
  \A i \in 1..Len(group) : group[i].id \notin Range(subtask.dependencies)

FindGroup(parallelGroups, subtask) ==
  IF \E g \in 1..Len(parallelGroups) : GroupAccepts(parallelGroups[g], subtask)
    THEN CHOOSE g \in 1..Len(parallelGroups) :
           /\ GroupAccepts(parallelGroups[g], subtask)
           /\ \A h \in 1..(g - 1) : ~GroupAccepts(parallelGroups[h], subtask)
    ELSE 0

RECURSIVE placeAll(_, _, _, _)
placeAll(parallelGroups, completed, orderedSubtasks, k) ==
  IF k > Len(orderedSubtasks) THEN parallelGroups
  ELSE LET subtask == orderedSubtasks[k]
           canStart == \A dep \in Range(subtask.dependencies) : dep \in completed
           g == FindGroup(parallelGroups, subtask)
       IN IF ~canStart
            THEN placeAll(parallelGroups, completed, orderedSubtasks, k + 1)
            ELSE placeAll(IF g = 0
                            THEN Append(parallelGroups, <<subtask>>)
                            ELSE [parallelGroups EXCEPT ![g] = Append(@, subtask)],
                          completed \cup {subtask.id}, orderedSubtasks, k + 1)

\* getParallelSubtasks that places the subtasks in declaration order, after
\* the cycle check of getSubtasksInOrder
getParallelSubtasks_declarationOrder(list) ==
  LET orderedSubtasks == getSubtasksInOrder(list)
  IN IF orderedSubtasks.threw THEN orderedSubtasks
     ELSE Returned(placeAll(<<>>, {}, list, 1))

getParallelSubtasks(list) ==
  LET orderedSubtasks == getSubtasksInOrder(list)
  IN IF orderedSubtasks.threw THEN orderedSubtasks
     ELSE Returned(placeAll(<<>>, {}, orderedSubtasks.value, 1))

\* ------------------------------------------------------------------------
\* TaskDecomposer.analyzeDecomposition (the fields that depend on the graph)
\* ------------------------------------------------------------------------
analyzeDecomposition(list) ==
  LET groups == getParallelSubtasks(list)
  IN IF groups.threw THEN groups
     ELSE Returned([totalSubtasks |-> Len(list),
                    hasDependencies |-> \E i \in 1..Len(list) : Len(list[i].dependencies) > 0,
                    parallelizability |-> Len(groups.value)])

\* ------------------------------------------------------------------------
\* TaskDecomposer.decompose
\* ------------------------------------------------------------------------
\* processDecompositionResult that collects the ids before slicing to the limit
processDecompositionResult_idsBeforeSlice(raw, limit) ==
  LET n == IF Len(raw) <= limit THEN Len(raw) ELSE limit
      allIds == [i \in 1..Len(raw) |-> IF raw[i].id = 0 THEN i ELSE raw[i].id]
      subtaskIds == Range(allIds)
      Exists(dep) == dep \in subtaskIds
  IN [i \in 1..n |-> [id |-> allIds[i],
                      dependencies |-> SelectSeq(raw[i].dependencies, Exists)]]

\* processDecompositionResult: slice to the limit, give "subtask-(index+1)" to
\* a subtask without id (id 0 in the raw array), drop the dependencies whose
\* id no subtask of the result has
processDecompositionResult(raw, limit) ==
  LET n == IF Len(raw) <= limit THEN Len(raw) ELSE limit
      withIds == [i \in 1..n |->
                    [id |-> IF raw[i].id = 0 THEN i ELSE raw[i].id,
                     dependencies |-> raw[i].dependencies]]
      subtaskIds == {withIds[i].id : i \in 1..n}
      Exists(dep) == dep \in subtaskIds
  IN [i \in 1..n |-> [id |-> withIds[i].id,
                      dependencies |-> SelectSeq(withIds[i].dependencies, Exists)]]

\* createFallbackDecomposition: analyse, design, implement, test
createFallbackDecomposition ==
  << [id |-> 1, dependencies |-> <<>>],
     [id |-> 2, dependencies |-> <<1>>],
     [id |-> 3, dependencies |-> <<2>>],
     [id |-> 4, dependencies |-> <<3>>] >>

\* decompose: the processed answer of llmClient.decomposeTask, or the fallback
\* decomposition when the LLM client (or the processing) throws
decompose(llm, limit) ==
  IF llm.error
    THEN [subtasks |-> createFallbackDecomposition, fallback |-> TRUE]
    ELSE [subtasks |-> processDecompositionResult(llm.subtasks, limit), fallback |-> FALSE]

\* ------------------------------------------------------------------------
\* SolutionSearcher (src/unnamed/part_004)
\* ------------------------------------------------------------------------
\* optional values: <<>> is null / undefined, <<v>> is the value v
None == <<>>
Some(v) == <<v>>

\* A solution text is described by the markers the code looks for in it with
\* String.includes, after cleanSolutionCode; "short" says length < 50.
\* A text containing "TODO:" contains "TODO".
Markers == {"function", "export", "/**", "try", "test", "TODO", "TODO:",
            "throw new Error", "placeholder", "short"}

\* the text createFallbackSolution builds for a subtask whose title and
\* description contain none of the markers
FallbackText == {"function", "export", "/**", "test", "TODO", "TODO:", "throw new Error"}

\* the cleaned texts the LLM client answers with in the model
SampleTexts ==
  { {"function", "export"},
    {"function", "export", "/**", "try"},
    {"export", "TODO", "placeholder", "short"},
    {"function"},
    {"function", "export", "TODO", "TODO:"},
    {"short"},
    {"function", "export", "/**", "try", "test", "throw new Error"} }

\* what one call of llmClient.generateSolution does: reject, or resolve with a text
LlmOutcomes ==
  {[error |-> TRUE, text |-> {}]} \cup {[error |-> FALSE, text |-> t] : t \in SampleTexts}

\* subtask objects findSolution may be given: well formed, with a title that is
\* not a string (generateSolutionFileName throws), or with acceptanceCriteria
\* that is a non-empty non-array (createSolutionDescription throws)
SubtaskShapes == {"wellFormed", "titleNotString", "criteriaNotArray"}

\* validateSolution
validateSolution(solution) ==
  LET hasFunctions == "function" \in solution.text \/ "export" \in solution.text
      hasImplementation == "TODO:" \notin solution.text /\ "throw new Error" \notin solution.text
      hasExports == "export" \in solution.text
      isValid == hasFunctions /\ hasImplementation /\ hasExports
  IN [hasStructure |-> hasFunctions,
      hasImplementation |-> hasImplementation,
      hasExports |-> hasExports,
      isValid |-> isValid,
      failureReason |->
        IF isValid THEN {}
        ELSE (IF hasFunctions THEN {} ELSE {"Missing function definitions"})
             \cup (IF hasImplementation THEN {} ELSE {"Contains placeholder or TODO comments"})
             \cup (IF hasExports THEN {} ELSE {"Missing exports"})]

\* calculateSolutionScore without the bonus for test-related code
calculateSolutionScore_noTestBonus(solution) ==
  (IF "function" \in solution.text THEN 10 ELSE 0)
  + (IF "export" \in solution.text THEN 10 ELSE 0)
  + (IF "/**" \in solution.text THEN 5 ELSE 0)
  + (IF "try" \in solution.text THEN 5 ELSE 0)
  + (IF "TODO" \notin solution.text THEN 10 ELSE 0)
  + (IF "throw new Error" \notin solution.text THEN 10 ELSE 0)
  - (IF "short" \in solution.text THEN 10 ELSE 0)
  - (IF "placeholder" \in solution.text THEN 5 ELSE 0)

\* calculateSolutionScore
calculateSolutionScore(solution) ==
  (IF "function" \in solution.text THEN 10 ELSE 0)
  + (IF "export" \in solution.text THEN 10 ELSE 0)
  + (IF "/**" \in solution.text THEN 5 ELSE 0)
  + (IF "try" \in solution.text THEN 5 ELSE 0)
  + (IF "test" \in solution.text THEN 5 ELSE 0)
  + (IF "TODO" \notin solution.text THEN 10 ELSE 0)
  + (IF "throw new Error" \notin solution.text THEN 10 ELSE 0)
  - (IF "short" \in solution.text THEN 10 ELSE 0)
  - (IF "placeholder" \in solution.text THEN 5 ELSE 0)

\* processSolutionResult: the candidate built from an LLM answer; generatedAt
\* (a logical clock, the attempt number) tells the candidates of one search apart
processSolutionResult(text, attempt) ==
  [text |-> text, fallback |-> FALSE, generatedAt |-> attempt]

\* createFallbackSolution
createFallbackSolution(attempt) ==
  [text |-> FallbackText, fallback |-> TRUE, generatedAt |-> attempt]

\* generateSolution without its try/catch: an LLM error propagates
generateSolution_noCatch(shape, llm, attempt) ==
  IF shape = "criteriaNotArray"
    THEN [threw |-> TRUE, llmCalled |-> FALSE, solution |-> None]
  ELSE IF shape = "titleNotString" \/ llm.error
    THEN [threw |-> TRUE, llmCalled |-> TRUE, solution |-> None]
  ELSE [threw |-> FALSE, llmCalled |-> TRUE,
        solution |-> Some(processSolutionResult(llm.text, attempt))]

\* generateSolution: createSolutionDescription (throws for criteriaNotArray,
\* before the LLM is called), the LLM call, then processSolutionResult or, on
\* any error, createFallbackSolution (both throw for titleNotString)
generateSolution(shape, llm, attempt) ==
  IF shape = "criteriaNotArray"
    THEN [threw |-> TRUE, llmCalled |-> FALSE, solution |-> None]
  ELSE IF shape = "titleNotString"
    THEN [threw |-> TRUE, llmCalled |-> TRUE, solution |-> None]
  ELSE IF llm.error
    THEN [threw |-> FALSE, llmCalled |-> TRUE, solution |-> Some(createFallbackSolution(attempt))]
  ELSE [threw |-> FALSE, llmCalled |-> TRUE,
        solution |-> Some(processSolutionResult(llm.text, attempt))]

\* Array.prototype.sort with the comparator (a, b) => score(b) - score(a):
\* stable, highest score first
RECURSIVE InsertByScore(_, _)
InsertByScore(sorted, a) ==
  IF sorted = <<>> THEN <<a>>
  ELSE IF calculateSolutionScore(Head(sorted).solution[1]) >= calculateSolutionScore(a.solution[1])
    THEN <<Head(sorted)>> \o InsertByScore(Tail(sorted), a)
    ELSE <<a>> \o sorted

RECURSIVE SortByScore(_)
SortByScore(list) ==
  IF list = <<>> THEN <<>>
  ELSE InsertByScore(SortByScore(SubSeq(list, 1, Len(list) - 1)), list[Len(list)])

\* the same sort, not stable: an element goes before those of equal score
RECURSIVE InsertByScore_unstable(_, _)
InsertByScore_unstable(sorted, a) ==
  IF sorted = <<>> THEN <<a>>
  ELSE IF calculateSolutionScore(Head(sorted).solution[1]) > calculateSolutionScore(a.solution[1])
    THEN <<Head(sorted)>> \o InsertByScore_unstable(Tail(sorted), a)
    ELSE <<a>> \o sorted

RECURSIVE SortByScore_unstable(_)
SortByScore_unstable(list) ==
  IF list = <<>> THEN <<>>
  ELSE InsertByScore_unstable(SortByScore_unstable(SubSeq(list, 1, Len(list) - 1)),
                              list[Len(list)])

\* the predicates of the two attempts.filter(...) calls of selectBestSolution
IsValidAttempt(a) == a.solution # None /\ a.validation # None /\ a.validation[1].isValid
HasCode(a) == a.solution # None /\ a.error = None

\* selectBestSolution that skips the search for a valid attempt
selectBestSolution_byScore(attemptList) ==
  LET solutionsWithCode == SelectSeq(attemptList, HasCode)
  IN IF Len(solutionsWithCode) > 0
       THEN SortByScore(solutionsWithCode)[1].solution
       ELSE None

\* selectBestSolution whose sort does not keep the order of equal scores
selectBestSolution_unstable(attemptList) ==
  LET validSolutions == SelectSeq(attemptList, IsValidAttempt)
      solutionsWithCode == SelectSeq(attemptList, HasCode)
  IN IF Len(validSolutions) > 0 THEN validSolutions[1].solution
     ELSE IF Len(solutionsWithCode) > 0
       THEN SortByScore_unstable(solutionsWithCode)[1].solution
       ELSE None

\* selectBestSolution
selectBestSolution(attemptList) ==
  LET validSolutions == SelectSeq(attemptList, IsValidAttempt)
      solutionsWithCode == SelectSeq(attemptList, HasCode)
  IN IF Len(validSolutions) > 0 THEN validSolutions[1].solution
     ELSE IF Len(solutionsWithCode) > 0
       THEN SortByScore(solutionsWithCode)[1].solution
       ELSE None

\* the loop condition of findSolution, off by one
LoopContinues_offByOne(nextAttempt, limit) == nextAttempt <= limit + 1

\* "attempt <= this.maxAttempts"
LoopContinues(nextAttempt, limit) == nextAttempt <= limit

\* ------------------------------------------------------------------------
\* RepositoryManager: rate limiting
\* ------------------------------------------------------------------------
\* executeWithRateLimit: const maxRetries = 3
maxRetries == 3

\* error.message.includes('rate limit') for a message flagged as such
MessageIncludesRateLimit(error) == error.rateLimitMessage

\* handleRateLimit, up to its await: whether it starts a wait (and will
\* resolve with true) or resolves with false at once
handleRateLimitWaits(error) ==
  /\ error.status = 429
  /\ MessageIncludesRateLimit(error)
  /\ error.reset # <<>>

\* handleRateLimit: Math.max(0, parseInt(resetTime) * 1000 - Date.now()) + 1000
waitTime(error, now) ==
  LET untilReset == error.reset[1] * 1000 - now
  IN (IF untilReset > 0 THEN untilReset ELSE 0) + 1000

\* executeWithRateLimit: the condition of its catch block under which it asks
\* handleRateLimit
AsksHandleRateLimit(error) ==
  /\ error.status = 403
  /\ MessageIncludesRateLimit(error)

\* ------------------------------------------------------------------------
\* State
\* ------------------------------------------------------------------------
VARIABLES
  subtasks,     \* the array passed to the TaskDecomposer function under call
  called,       \* which TaskDecomposer function has been called on it
  ret,          \* what the call returned or threw
  searchPc,     \* findSolution: "idle", "attempting" (in the loop) or "done"
  searchSubtask, \* findSolution: the shape of its subtask argument
  maxAttempts,  \* SolutionSearcher.maxAttempts
  attempt,      \* findSolution: the loop counter
  attempts,     \* findSolution: the attempts array
  lastFailureOutput, \* findSolution: failure reason fed to the next attempt
  llmRequests,  \* the calls of llmClient.generateSolution, with their failureOutput
  generateCalls, \* number of calls of SolutionSearcher.generateSolution
  result,       \* what findSolution resolved with
  currentTask,  \* UniversalAlgorithm.currentTask
  workflowState, \* UniversalAlgorithm.workflowState
  solvePc,      \* where the solve() in flight stands
  loopIndex,    \* solve(): index of the element the current for loop is at
  localList,    \* solve(): the local array the current phase is building
  pendingError, \* solve(): the error a phase step threw
  solveOutcome, \* what solve() rejected with
  phaseLog,     \* the values assigned to workflowState.phase since solve() began
  calls,        \* the collaborator calls that settled since solve() began
  status,       \* what the last getStatus() returned
  managerPc,    \* RepositoryManager: "idle", "apiCall", "waiting", "resolved", "rejected"
  entry,        \* RepositoryManager: the method that was called
  retryAttempt, \* executeWithRateLimit: the loop variable attempt
  apiCalls,     \* executeWithRateLimit: number of calls of apiCall so far
  clock,        \* Date.now(), in milliseconds
  sleeps,       \* handleRateLimit: the waits it started, with the time they end
  rateLimitError, \* the error caught by executeWithRateLimit / given to handleRateLimit
  managerRet,   \* handleRateLimit: the value it resolved with
  invocations,  \* the findSolution invocations in flight on one SolutionSearcher
  execPc,       \* Orchestrator.execute: the await it stands at, or how it settled
  dryRun,       \* process.env.UNIVERSAL_ALGORITHM_DRY_RUN === 'true'
  execSubtasks, \* execute: subtasks.length
  execIndex,    \* execute: the subtask the loop is at (i + 1)
  subtaskSolutions, \* execute: the subtasks whose solution content was pushed
  successCount, \* execute: the local successCount
  execCalls,    \* execute: the collaborator calls that settled, with their outcome
  batchPc,      \* searchSolutionsForAllSubtasks: the step it stands at
  subtaskIssues, \* searchSolutionsForAllSubtasks: the issue numbers given
  testResults,  \* searchSolutionsForAllSubtasks: the test results given
  batchIndex,   \* searchSolutionsForAllSubtasks: position of the for-of loop
  results,      \* searchSolutionsForAllSubtasks: the results array
  suppressGlobalOctokitErrors, \* RepositoryManager.suppressGlobalOctokitErrors
  existsCalls   \* the repositoryExists calls: where each stands and its local prev

graphVars == <<subtasks, called, ret>>

searchVars == <<searchPc, searchSubtask, maxAttempts, attempt, attempts,
                lastFailureOutput, llmRequests, generateCalls, result>>

solveVars == <<currentTask, workflowState, solvePc, loopIndex, localList,
               pendingError, solveOutcome, phaseLog, calls, status>>

managerVars == <<managerPc, entry, retryAttempt, apiCalls, clock, sleeps,
                 rateLimitError, managerRet>>

concurrentVars == <<invocations>>

executeVars == <<execPc, dryRun, execSubtasks, execIndex, subtaskSolutions,
                 successCount, execCalls>>

batchVars == <<batchPc, subtaskIssues, testResults, batchIndex, results>>

existsVars == <<suppressGlobalOctokitErrors, existsCalls>>

pipelineVars == <<executeVars, batchVars, existsVars>>

vars == <<graphVars, searchVars, solveVars, managerVars, concurrentVars, pipelineVars>>

\* the workflowState object of the constructor; the fields that solve(),
\* pause() and resume() add later (error, solutionPackage, summary, paused,
\* pausedAt, resumedAt) are absent, which reads as None like null does
InitialWorkflowState ==
  [phase |-> "idle", mainIssue |-> None, decomposition |-> None, subIssues |-> <<>>,
   tests |-> <<>>, solutions |-> <<>>, composition |-> None, startTime |-> None,
   endTime |-> None, error |-> None, solutionPackage |-> None, summary |-> None,
   paused |-> None, pausedAt |-> None, resumedAt |-> None]

\* a reset() that clears the fields of its literal in place, on the old object
ResetWorkflowState_inPlace ==
  [workflowState EXCEPT !.phase = "idle", !.mainIssue = None, !.decomposition = None,
                        !.subIssues = <<>>, !.tests = <<>>, !.solutions = <<>>,
                        !.composition = None, !.startTime = None, !.endTime = None]

\* the object literal that reset() assigns to workflowState
ResetWorkflowState ==
  [phase |-> "idle", mainIssue |-> None, decomposition |-> None, subIssues |-> <<>>,
   tests |-> <<>>, solutions |-> <<>>, composition |-> None, startTime |-> None,
   endTime |-> None, error |-> None, solutionPackage |-> None, summary |-> None,
   paused |-> None, pausedAt |-> None, resumedAt |-> None]

\* a freshly constructed UniversalAlgorithm, no solve() in flight
SolveIdle ==
  /\ currentTask = None
  /\ workflowState = InitialWorkflowState
  /\ solvePc = "idle"
  /\ loopIndex = 0
  /\ localList = <<>>
  /\ pendingError = None
  /\ solveOutcome = None
  /\ phaseLog = <<>>
  /\ calls = <<>>
  /\ status = None

\* the searcher before any findSolution call
SearchIdle ==
  /\ searchPc = "idle"
  /\ searchSubtask = "wellFormed"
  /\ maxAttempts = 1
  /\ attempt = 0
  /\ attempts = <<>>
  /\ lastFailureOutput = {}
  /\ llmRequests = <<>>
  /\ generateCalls = 0
  /\ result = None

\* the repositoryExists calls that may overlap on one RepositoryManager
ExistsCallers == {1, 2, 3}

\* an Orchestrator with no execute() in flight
ExecuteIdle ==
  /\ execPc = "idle"
  /\ dryRun = FALSE
  /\ execSubtasks = 0
  /\ execIndex = 0
  /\ subtaskSolutions = <<>>
  /\ successCount = 0
  /\ execCalls = <<>>

\* no searchSolutionsForAllSubtasks call
BatchIdle ==
  /\ batchPc = "idle"
  /\ subtaskIssues = <<>>
  /\ testResults = <<>>
  /\ batchIndex = 0
  /\ results = <<>>

\* a freshly constructed RepositoryManager, no repositoryExists call made
ExistsIdle ==
  /\ suppressGlobalOctokitErrors = FALSE
  /\ existsCalls = [c \in ExistsCallers |-> [pc |-> "idle", prev |-> FALSE]]

PipelineIdle == ExecuteIdle /\ BatchIdle /\ ExistsIdle

\* the invocations of findSolution that may be in flight at once
Invocations == {1, 2}

\* the locals of a findSolution invocation that has not been called
IdleInvocation ==
  [pc |-> "idle", subtask |-> "wellFormed", responses |-> <<>>, attempt |-> 0,
   attempts |-> <<>>, lastFailureOutput |-> {}, sent |-> {}, requests |-> <<>>,
   result |-> None]

\* no findSolution invocation in flight
ConcurrentIdle == invocations = [i \in Invocations |-> IdleInvocation]

\* a RepositoryManager with no call in flight
ManagerIdle ==
  /\ managerPc = "idle"
  /\ entry = "none"
  /\ retryAttempt = 0
  /\ apiCalls = 0
  /\ clock = 0
  /\ sleeps = <<>>
  /\ rateLimitError = None
  /\ managerRet = None

\* no TaskDecomposer function under call
GraphIdle ==
  /\ subtasks = <<>>
  /\ called = "none"
  /\ ret = Returned(<<>>)

\* ------------------------------------------------------------------------
\* Specification of the TaskDecomposer ordering functions
\* ------------------------------------------------------------------------
InitGraph ==
  /\ \E n \in 0..MaxSubtasks : \E deps \in SeqsOfLen(DepLists, n) :
       subtasks = SubtaskList(deps)
  /\ called = "none"
  /\ ret = Returned(<<>>)
  /\ SearchIdle
  /\ SolveIdle
  /\ ManagerIdle
  /\ ConcurrentIdle
  /\ PipelineIdle

CallGetSubtasksInOrder ==
  /\ called = "none"
  /\ called' = "getSubtasksInOrder"
  /\ ret' = getSubtasksInOrder(subtasks)
  /\ UNCHANGED subtasks

CallGetParallelSubtasks ==
  /\ called = "none"
  /\ called' = "getParallelSubtasks"
  /\ ret' = getParallelSubtasks(subtasks)
  /\ UNCHANGED subtasks

CallAnalyzeDecomposition ==
  /\ called = "none"
  /\ called' = "analyzeDecomposition"
  /\ ret' = analyzeDecomposition(subtasks)
  /\ UNCHANGED subtasks

NextGraph ==
  \/ CallGetSubtasksInOrder /\ UNCHANGED <<searchVars, solveVars, managerVars, concurrentVars, pipelineVars>>
  \/ CallGetParallelSubtasks /\ UNCHANGED <<searchVars, solveVars, managerVars, concurrentVars, pipelineVars>>
  \/ CallAnalyzeDecomposition /\ UNCHANGED <<searchVars, solveVars, managerVars, concurrentVars, pipelineVars>>

SpecGraph == InitGraph /\ [][NextGraph]_vars

\* ------------------------------------------------------------------------
\* Specification of TaskDecomposer.decompose and processDecompositionResult.
\* The variable subtasks holds the raw list answered by llmClient.decomposeTask:
\* an entry's id is 0 when the LLM supplied none, and k stands for "subtask-k".
\* ------------------------------------------------------------------------
RawIds == 0..MaxRawSubtasks

RawDepLists ==
  UNION {{d \in SeqsOfLen(1..MaxRawSubtasks, n) : NoRepeat(d)} : n \in 0..MaxDeps}

RawSubtasks == [id : RawIds, dependencies : RawDepLists]

\* this.maxSubtasks: a positive number
MaxSubtasksOptions == 1..MaxRawSubtasks

InitDecompose ==
  /\ \E n \in 0..MaxRawSubtasks : \E raw \in SeqsOfLen(RawSubtasks, n) : subtasks = raw
  /\ called = "none"
  /\ ret = Returned(<<>>)
  /\ SearchIdle
  /\ SolveIdle
  /\ ManagerIdle
  /\ ConcurrentIdle
  /\ PipelineIdle

CallProcessDecompositionResult(limit) ==
  /\ called = "none"
  /\ called' = "processDecompositionResult"
  /\ ret' = Returned(processDecompositionResult(subtasks, limit))
  /\ UNCHANGED subtasks

\* decompose: the LLM client answers with the raw list, or rejects
CallDecompose(llmError, limit) ==
  /\ called = "none"
  /\ called' = "decompose"
  /\ ret' = Returned(decompose([error |-> llmError, subtasks |-> subtasks], limit))
  /\ UNCHANGED subtasks

NextDecompose ==
  \/ \E limit \in MaxSubtasksOptions :
       CallProcessDecompositionResult(limit) /\ UNCHANGED <<searchVars, solveVars, managerVars, concurrentVars, pipelineVars>>
  \/ \E llmError \in BOOLEAN : \E limit \in MaxSubtasksOptions :
       CallDecompose(llmError, limit) /\ UNCHANGED <<searchVars, solveVars, managerVars, concurrentVars, pipelineVars>>

SpecDecompose == InitDecompose /\ [][NextDecompose]_vars

\* ------------------------------------------------------------------------
\* Specification of SolutionSearcher.findSolution
\* ------------------------------------------------------------------------
InitSearch ==
  /\ GraphIdle
  /\ SolveIdle
  /\ ManagerIdle
  /\ ConcurrentIdle
  /\ PipelineIdle
  /\ searchPc = "idle"
  /\ searchSubtask = "wellFormed"
  /\ maxAttempts \in 1..MaxAttemptsBound
  /\ attempt = 0
  /\ attempts = <<>>
  /\ lastFailureOutput = {}
  /\ llmRequests = <<>>
  /\ generateCalls = 0
  /\ result = None

\* findSolution up to the first await of its loop
CallFindSolution(shape) ==
  /\ searchPc = "idle"
  /\ searchSubtask' = shape
  /\ attempts' = <<>>
  /\ lastFailureOutput' = {}
  /\ attempt' = 1
  /\ searchPc' = IF LoopContinues(1, maxAttempts) THEN "attempting" ELSE "done"
  /\ result' = IF LoopContinues(1, maxAttempts) THEN None
               ELSE Some([attempts |-> <<>>, bestSolution |-> selectBestSolution(<<>>),
                          searchComplete |-> TRUE, totalAttempts |-> 0])
  /\ UNCHANGED <<maxAttempts, llmRequests, generateCalls>>

\* the end of a loop iteration without the break on a valid solution
EndOfIteration_noBreak(newAttempts, break) ==
  IF LoopContinues(attempt + 1, maxAttempts)
    THEN /\ attempt' = attempt + 1
         /\ searchPc' = "attempting"
         /\ result' = None
    ELSE /\ attempt' = attempt + 1
         /\ searchPc' = "done"
         /\ result' = Some([attempts |-> newAttempts,
                            bestSolution |-> selectBestSolution(newAttempts),
                            searchComplete |-> TRUE,
                            totalAttempts |-> Len(newAttempts)])

\* the end of a loop iteration: break or the loop test, then the result
EndOfIteration(newAttempts, break) ==
  IF ~break /\ LoopContinues(attempt + 1, maxAttempts)
    THEN /\ attempt' = attempt + 1
         /\ searchPc' = "attempting"
         /\ result' = None
    ELSE /\ attempt' = IF break THEN attempt ELSE attempt + 1
         /\ searchPc' = "done"
         /\ result' = Some([attempts |-> newAttempts,
                            bestSolution |-> selectBestSolution(newAttempts),
                            searchComplete |-> TRUE,
                            totalAttempts |-> Len(newAttempts)])

\* the LLM request of this iteration, when generateSolution gets that far
RecordRequest(g, llm) ==
  llmRequests' =
    IF g.llmCalled
      THEN Append(llmRequests, [attempt |-> attempt, failureOutput |-> lastFailureOutput,
                                rejected |-> llm.error])
      ELSE llmRequests

\* the try body with "lastFailureOutput = lastFailureOutput || failureReason":
\* the first failure reason is kept for all later attempts
AttemptValidated_firstReasonKept(llm) ==
  LET g == generateSolution(searchSubtask, llm, attempt)
      validation == validateSolution(g.solution[1])
      newAttempts == Append(attempts, [attempt |-> attempt, solution |-> g.solution,
                                       validation |-> Some(validation), error |-> None])
  IN /\ searchPc = "attempting"
     /\ ~g.threw
     /\ generateCalls' = generateCalls + 1
     /\ RecordRequest(g, llm)
     /\ attempts' = newAttempts
     /\ lastFailureOutput' = IF validation.isValid \/ lastFailureOutput # {}
                               THEN lastFailureOutput
                               ELSE validation.failureReason
     /\ EndOfIteration(newAttempts, validation.isValid)
     /\ UNCHANGED <<searchSubtask, maxAttempts>>

\* one iteration through the try body: generateSolution resolves, the solution
\* is validated and pushed, a valid one breaks the loop
AttemptValidated(llm) ==
  LET g == generateSolution(searchSubtask, llm, attempt)
      validation == validateSolution(g.solution[1])
      newAttempts == Append(attempts, [attempt |-> attempt, solution |-> g.solution,
                                       validation |-> Some(validation), error |-> None])
  IN /\ searchPc = "attempting"
     /\ ~g.threw
     /\ generateCalls' = generateCalls + 1
     /\ RecordRequest(g, llm)
     /\ attempts' = newAttempts
     /\ lastFailureOutput' = IF validation.isValid THEN lastFailureOutput
                             ELSE validation.failureReason
     /\ EndOfIteration(newAttempts, validation.isValid)
     /\ UNCHANGED <<searchSubtask, maxAttempts>>

\* one iteration through the catch: generateSolution rejects, an attempt with
\* the error message and no solution is pushed
AttemptFailed(llm) ==
  LET g == generateSolution(searchSubtask, llm, attempt)
      newAttempts == Append(attempts, [attempt |-> attempt, solution |-> None,
                                       validation |-> None, error |-> Some("message")])
  IN /\ searchPc = "attempting"
     /\ g.threw
     /\ generateCalls' = generateCalls + 1
     /\ RecordRequest(g, llm)
     /\ attempts' = newAttempts
     /\ EndOfIteration(newAttempts, FALSE)
     /\ UNCHANGED <<searchSubtask, maxAttempts, lastFailureOutput>>

NextSearch ==
  \/ \E shape \in SubtaskShapes : CallFindSolution(shape) /\ UNCHANGED <<graphVars, solveVars, managerVars, concurrentVars, pipelineVars>>
  \/ \E llm \in LlmOutcomes : AttemptValidated(llm) /\ UNCHANGED <<graphVars, solveVars, managerVars, concurrentVars, pipelineVars>>
  \/ \E llm \in LlmOutcomes : AttemptFailed(llm) /\ UNCHANGED <<graphVars, solveVars, managerVars, concurrentVars, pipelineVars>>

SpecSearch == InitSearch /\ [][NextSearch]_vars

\* ------------------------------------------------------------------------
\* Claims on SolutionSearcher.findSolution (SpecSearch)
\* ------------------------------------------------------------------------
bestSolution == result[1].bestSolution

\* the attempts that produced a candidate
WithCandidate == {k \in 1..Len(attempts) : attempts[k].solution # None}

ScoreOfAttempt(k) == calculateSolutionScore(attempts[k].solution[1])

\* C5: one findSolution invocation makes at most maxAttempts calls to the
\* generator (SolutionSearcher.generateSolution and the LLM client behind it)
\* and records at most maxAttempts attempts, whatever the generator does.
C5_AtMostMaxAttempts ==
  /\ generateCalls <= maxAttempts
  /\ Len(llmRequests) <= maxAttempts
  /\ Len(attempts) <= maxAttempts

\* C5 witness: a search has used its whole budget of MaxAttemptsBound attempts,
\* mixing LLM errors and invalid candidates.
C5_Witness ==
  /\ searchPc = "done"
  /\ maxAttempts = MaxAttemptsBound
  /\ Len(llmRequests) = maxAttempts
  /\ Len(attempts) = maxAttempts
  /\ \E r \in Range(llmRequests) : r.rejected
  /\ \E r \in Range(llmRequests) : ~r.rejected

\* C6: if an attempt passes validation the search stops at that attempt (no
\* further generator call) and bestSolution is exactly that attempt's
\* candidate, whatever the scores of the other attempts.
C6_FirstValidWins ==
  \A k \in 1..Len(attempts) :
    IsValidAttempt(attempts[k]) =>
      /\ k = Len(attempts)
      /\ searchPc = "done"
      /\ generateCalls = k
      /\ Len(llmRequests) = k
      /\ bestSolution = attempts[k].solution

\* C6 witness: maxAttempts = 3, attempts 1 and 2 invalid, attempt 3 valid and
\* scoring lower than both, and attempt 3's candidate is the result.
C6_Witness ==
  /\ searchPc = "done"
  /\ Len(attempts) = 3
  /\ ~IsValidAttempt(attempts[1]) /\ ~IsValidAttempt(attempts[2])
  /\ IsValidAttempt(attempts[3])
  /\ ScoreOfAttempt(3) < ScoreOfAttempt(1) /\ ScoreOfAttempt(3) < ScoreOfAttempt(2)
  /\ bestSolution = attempts[3].solution

\* C7: if no attempt passes validation and at least one attempt produced a
\* candidate, bestSolution is the candidate with the highest score among the
\* attempts that produced one, the earliest attempt among equal top scores.
C7_BestOfExhausted ==
  (/\ searchPc = "done"
   /\ WithCandidate # {}
   /\ \A k \in 1..Len(attempts) : ~IsValidAttempt(attempts[k])) =>
    \E k \in WithCandidate :
      /\ bestSolution = attempts[k].solution
      /\ \A j \in WithCandidate : ScoreOfAttempt(j) <= ScoreOfAttempt(k)
      /\ \A j \in WithCandidate : ScoreOfAttempt(j) = ScoreOfAttempt(k) => k <= j

\* C7 witness: three invalid attempts, the first scoring lowest and the other
\* two sharing the top score; the candidate of attempt 2 is the result.
C7_Witness ==
  /\ searchPc = "done"
  /\ Len(attempts) = 3
  /\ WithCandidate = {1, 2, 3}
  /\ \A k \in 1..3 : ~IsValidAttempt(attempts[k])
  /\ ScoreOfAttempt(1) < ScoreOfAttempt(2)
  /\ ScoreOfAttempt(2) = ScoreOfAttempt(3)
  /\ attempts[2].solution[1].text # attempts[3].solution[1].text
  /\ bestSolution = attempts[2].solution

\* every request to the LLM client of this search was rejected
EveryRequestRejected ==
  /\ llmRequests # <<>>
  /\ Len(llmRequests) = Len(attempts)
  /\ \A r \in Range(llmRequests) : r.rejected

\* C8 (as stated): a generator error on an attempt is recorded as an attempt
\* with no candidate and is never selected; if the generator fails on every
\* attempt, bestSolution is null.
C8_GeneratorErrorNoCandidate ==
  (searchPc = "done") =>
    /\ \A r \in Range(llmRequests) : r.rejected => attempts[r.attempt].solution = None
    /\ EveryRequestRejected => bestSolution = None

\* C8 (amended): an attempt on which generateSolution itself throws is recorded
\* with the error and no candidate and is never selected, and bestSolution is
\* null when every attempt is of that kind; an error of the LLM client is caught
\* in generateSolution, the attempt is recorded with the fallback placeholder
\* as its (invalid) candidate, and when the LLM client fails on every attempt
\* for a well-formed subtask bestSolution is the fallback of attempt 1.
C8_FallbackOnGeneratorError ==
  /\ \A k \in 1..Len(attempts) : attempts[k].error # None => attempts[k].solution = None
  /\ (searchPc = "done") =>
       /\ bestSolution # None =>
            \E k \in 1..Len(attempts) :
              attempts[k].error = None /\ bestSolution = attempts[k].solution
       /\ (\A k \in 1..Len(attempts) : attempts[k].error # None) => bestSolution = None
       /\ searchSubtask = "wellFormed" =>
            /\ \A r \in Range(llmRequests) :
                 r.rejected =>
                   /\ attempts[r.attempt].error = None
                   /\ attempts[r.attempt].solution = Some(createFallbackSolution(r.attempt))
                   /\ ~attempts[r.attempt].validation[1].isValid
            /\ EveryRequestRejected => bestSolution = Some(createFallbackSolution(1))

\* C8 witness: the LLM client failed on each of MaxAttemptsBound attempts for a
\* well-formed subtask and the result is the fallback candidate of attempt 1.
C8_Witness ==
  /\ searchPc = "done"
  /\ searchSubtask = "wellFormed"
  /\ maxAttempts = MaxAttemptsBound
  /\ EveryRequestRejected
  /\ bestSolution = attempts[1].solution
  /\ bestSolution # None
  /\ bestSolution[1].fallback

\* 1 when the marker occurs in the text, else 0
Has(text, marker) == IF marker \in text THEN 1 ELSE 0

\* C30 (as stated): the score starts at 0, gains 10 for each of the four
\* quality signals present ('function', 'export', '/**', 'try'), gains 10 if
\* no placeholder marker ('TODO', 'throw new Error') is present, loses 10 if
\* the body is shorter than the minimum length and loses 5 if the low-effort
\* marker ('placeholder') is present; nothing else contributes.
C30_ScoreAsDocumented ==
  \A k \in WithCandidate :
    LET text == attempts[k].solution[1].text
    IN ScoreOfAttempt(k) =
         10 * (Has(text, "function") + Has(text, "export")
               + Has(text, "/**") + Has(text, "try"))
         + 10 * (1 - Has(text, "TODO") - Has(text, "throw new Error")
                   + Has(text, "TODO") * Has(text, "throw new Error"))
         - 10 * Has(text, "short")
         - 5 * Has(text, "placeholder")

\* C30 (amended): the score starts at 0, gains 10 for 'function' and 10 for
\* 'export', gains 5 for each of '/**', 'try' and 'test', gains 10 if 'TODO'
\* is absent and another 10 if 'throw new Error' is absent, loses 10 if the
\* text is shorter than 50 characters and loses 5 if it contains
\* 'placeholder'; nothing else contributes.
C30_ScoreAsComputed ==
  \A k \in WithCandidate :
    LET text == attempts[k].solution[1].text
    IN ScoreOfAttempt(k) =
         10 * (Has(text, "function") + Has(text, "export"))
         + 5 * (Has(text, "/**") + Has(text, "try") + Has(text, "test"))
         + 10 * (1 - Has(text, "TODO"))
         + 10 * (1 - Has(text, "throw new Error"))
         - 10 * Has(text, "short")
         - 5 * Has(text, "placeholder")

\* C30 witness: a candidate with executable logic, an export, a structured
\* comment, error handling, test-related code and a thrown placeholder error
\* scores 10 + 10 + 5 + 5 + 5 + 10 = 45.
C30_Witness ==
  \E k \in WithCandidate :
    /\ attempts[k].solution[1].text =
         {"function", "export", "/**", "try", "test", "throw new Error"}
    /\ ScoreOfAttempt(k) = 45

\* whether a recorded attempt carries a validation that passed
PassedValidation(a) == a.validation # None /\ a.validation[1].isValid

\* C38: findSolution never rejects (once its loop is over it has resolved
\* with a result), and its result is well formed: totalAttempts equals the
\* number of recorded attempts, attempt numbers are 1..n consecutive, and at
\* most one recorded attempt is valid, which is then the last one.
C38_ResultWellFormed ==
  /\ \A k \in 1..Len(attempts) : attempts[k].attempt = k
  /\ \A k \in 1..Len(attempts) : PassedValidation(attempts[k]) => k = Len(attempts)
  /\ (searchPc = "done") =>
       /\ result # None
       /\ result[1].attempts = attempts
       /\ result[1].totalAttempts = Len(attempts)
       /\ result[1].searchComplete

\* C38 witness: a search that resolved after two failed attempts and a valid
\* third one
C38_Witness ==
  /\ searchPc = "done"
  /\ result # None
  /\ result[1].totalAttempts = 3
  /\ ~PassedValidation(attempts[1])
  /\ ~PassedValidation(attempts[2])
  /\ PassedValidation(attempts[3])

\* what an attempt failed with: the failure reason of its validation, or the
\* message of the error it was recorded with
FailureOf(a) == IF a.validation # None THEN a.validation[1].failureReason
                ELSE {a.error[1]}

\* the failure reason left by the last attempt before attempt k that was
\* validated (none when there is no such attempt)
RECURSIVE LastValidationFailure(_)
LastValidationFailure(k) ==
  IF k <= 1 THEN {}
  ELSE IF attempts[k - 1].validation # None
    THEN attempts[k - 1].validation[1].failureReason
    ELSE LastValidationFailure(k - 1)

\* C21 (as stated): the generator request for attempt 1 carries no failure
\* reason, and the request for each attempt k >= 2 carries what attempt k-1,
\* the immediately preceding attempt, failed with.
C21_PreviousFailureFedBack ==
  \A r \in Range(llmRequests) :
    /\ (r.attempt = 1) => r.failureOutput = {}
    /\ (r.attempt >= 2) => r.failureOutput = FailureOf(attempts[r.attempt - 1])

\* C21 (amended): the request for attempt 1 carries no failure reason; the
\* request for attempt k >= 2 carries the validation failure reason of attempt
\* k-1 when that attempt produced a candidate, which is always so for a
\* well-formed subtask and the reason is then not empty; an attempt that ended
\* in an exception records its error but passes nothing on, so the request
\* after it carries the reason left by the last validated attempt, if any.
C21_ValidationFailureFedBack ==
  \A r \in Range(llmRequests) :
    /\ (r.attempt = 1) => r.failureOutput = {}
    /\ r.failureOutput = LastValidationFailure(r.attempt)
    /\ (r.attempt >= 2 /\ searchSubtask = "wellFormed") =>
         /\ attempts[r.attempt - 1].validation # None
         /\ r.failureOutput = attempts[r.attempt - 1].validation[1].failureReason
         /\ r.failureOutput # {}

\* C21 witness: three attempts for a well-formed subtask, the first two
\* failing validation for different reasons; the third request carries the
\* reason of the second attempt, not of the first.
C21_Witness ==
  /\ searchSubtask = "wellFormed"
  /\ Len(llmRequests) = 3
  /\ Len(attempts) >= 2
  /\ attempts[1].validation[1].failureReason # attempts[2].validation[1].failureReason
  /\ llmRequests[2].failureOutput = attempts[1].validation[1].failureReason
  /\ llmRequests[3].failureOutput = attempts[2].validation[1].failureReason

\* ------------------------------------------------------------------------
\* The dependency graph of a subtask array, defined without the traversal
\* ------------------------------------------------------------------------
IdsOf(list) == {list[i].id : i \in 1..Len(list)}

\* the ids a subtask id depends on directly, among the ids of the array
DirectDeps(list, id) ==
  UNION {Range(list[i].dependencies) \cap IdsOf(list) : i \in {j \in 1..Len(list) : list[j].id = id}}

RECURSIVE Closure(_, _, _)
Closure(list, reached, n) ==
  IF n = 0 THEN reached
  ELSE Closure(list, reached \cup UNION {DirectDeps(list, a) : a \in reached}, n - 1)

\* the ids reachable from id by one or more dependency edges
DependsOn(list, id) == Closure(list, DirectDeps(list, id), Len(list))

OnCycle(list, id) == id \in DependsOn(list, id)

HasCycle(list) == \E id \in IdsOf(list) : OnCycle(list, id)

DistinctIds(list) == \A i, j \in 1..Len(list) : i # j => list[i].id # list[j].id

\* position of the subtask with this id in an array of subtasks, 0 if absent
PositionOf(list, id) == Find(list, id)

\* index of the batch holding the subtask with this id, 0 if in no batch
BatchOf(groups, id) ==
  IF \E g \in 1..Len(groups) : id \in IdsOf(groups[g])
    THEN CHOOSE g \in 1..Len(groups) : id \in IdsOf(groups[g])
    ELSE 0

\* ------------------------------------------------------------------------
\* Claims on the TaskDecomposer ordering functions (SpecGraph)
\* ------------------------------------------------------------------------

\* C1: for subtasks with pairwise-distinct ids and no dependency cycle,
\* getSubtasksInOrder returns a sequence containing every input subtask exactly
\* once, each after every subtask listed in its dependencies.
C1_TopologicalOrder ==
  (called = "getSubtasksInOrder" /\ DistinctIds(subtasks) /\ ~HasCycle(subtasks)) =>
    /\ ~ret.threw
    /\ Len(ret.value) = Len(subtasks)
    /\ \A i \in 1..Len(subtasks) :
         Cardinality({p \in 1..Len(ret.value) : ret.value[p] = subtasks[i]}) = 1
    /\ \A p \in 1..Len(ret.value) :
         \A dep \in Range(ret.value[p].dependencies) \cap IdsOf(subtasks) :
           \E q \in 1..(p - 1) : ret.value[q].id = dep

\* C1 witness: an acyclic array of MaxSubtasks subtasks whose first subtask
\* depends on a later one has been ordered, the dependency coming first.
C1_Witness ==
  /\ called = "getSubtasksInOrder"
  /\ ~HasCycle(subtasks)
  /\ Len(subtasks) = MaxSubtasks
  /\ subtasks[1].dependencies = <<2>>
  /\ ~ret.threw
  /\ ret.value[1].id = 2

\* C2: for subtasks whose dependency edges contain a cycle (self-dependency
\* included), getSubtasksInOrder, getParallelSubtasks and analyzeDecomposition
\* all throw the circular-dependency error, which names a subtask on a cycle;
\* without a cycle the error is never thrown.
C2_CycleDetected ==
  (called # "none") =>
    /\ HasCycle(subtasks) => (ret.threw /\ OnCycle(subtasks, ret.involving))
    /\ ~HasCycle(subtasks) => ~ret.threw

\* C2 witness: getParallelSubtasks has thrown on an array in which a subtask
\* that is not on the cycle leads into a cycle of two others.
C2_Witness ==
  /\ called = "getParallelSubtasks"
  /\ ret.threw
  /\ \E id \in IdsOf(subtasks) : ~OnCycle(subtasks, id) /\ ret.involving \in DependsOn(subtasks, id)
  /\ \E id \in IdsOf(subtasks) : id # ret.involving /\ OnCycle(subtasks, id)

\* C3: for an acyclic subtask array, getParallelSubtasks places no subtask in a
\* batch with a smaller index than the batch of a subtask it depends on.
C3_BatchNotBeforeDependency ==
  (called = "getParallelSubtasks" /\ ~HasCycle(subtasks)) =>
    \A id \in IdsOf(subtasks) : \A dep \in DirectDeps(subtasks, id) :
      (BatchOf(ret.value, id) # 0 /\ BatchOf(ret.value, dep) # 0) =>
        BatchOf(ret.value, id) >= BatchOf(ret.value, dep)

\* ------------------------------------------------------------------------
\* Specification of UniversalAlgorithm.solve (src/js-poc-4/src/orchestrator.js)
\* One action per synchronous stretch of solve(), from one await to the next.
\* The GitHub client, test generator, solution searcher and composer are the
\* injected collaborators: each call either resolves or rejects.
\* ------------------------------------------------------------------------
Init ==
  /\ GraphIdle
  /\ SearchIdle
  /\ SolveIdle
  /\ ManagerIdle
  /\ ConcurrentIdle
  /\ PipelineIdle

NoViableSolutions == "No valid partial solutions found for composition"

\* one settled call of a collaborator: the method, the sub-issue number (for
\* the composer: the number of partial solutions) and whether it resolved
Call(fn, arg, ok) == [fn |-> fn, arg |-> arg, ok |-> ok]

SetPhase(ws, p) == [ws EXCEPT !.phase = p]

\* a phase step throws: control goes to the catch block of solve()
Throw(message) ==
  /\ pendingError' = Some(message)
  /\ solvePc' = "catch"

\* solve() up to "await this.taskDecomposer.decompose(...)", called on a fresh
\* or reset instance or, without reset(), after an earlier solve() has settled
Solve ==
  /\ solvePc \in {"idle", "resolved", "rejected"}
  /\ currentTask' = Some("task")
  /\ workflowState' = SetPhase([workflowState EXCEPT !.startTime = Some("time")],
                               "decomposition")
  /\ phaseLog' = <<"decomposition">>
  /\ calls' = <<>>
  /\ solvePc' = "decompose"
  /\ loopIndex' = 0
  /\ localList' = <<>>
  /\ pendingError' = None
  /\ solveOutcome' = None
  /\ UNCHANGED status

\* executeDecomposition after its await
ExecuteDecomposition(llm) ==
  /\ solvePc = "decompose"
  /\ workflowState' =
       [workflowState EXCEPT !.decomposition = Some(decompose(llm, DefaultMaxSubtasks))]
  /\ solvePc' = "executeIssueCreation"
  /\ UNCHANGED <<currentTask, loopIndex, localList, pendingError, solveOutcome, phaseLog, calls, status>>

\* executeIssueCreation up to "await this.githubClient.createIssue(...)"
ExecuteIssueCreation ==
  /\ solvePc = "executeIssueCreation"
  /\ workflowState' = SetPhase(workflowState, "issue_creation")
  /\ phaseLog' = Append(phaseLog, "issue_creation")
  /\ solvePc' = "createIssue"
  /\ UNCHANGED <<currentTask, loopIndex, localList, pendingError, solveOutcome, calls, status>>

\* createIssue settles; on success the sub-issue loop starts
CreateIssue(ok) ==
  /\ solvePc = "createIssue"
  /\ IF ~ok
       THEN /\ Throw("Failed to create issue")
            /\ UNCHANGED <<workflowState, loopIndex, localList>>
       ELSE IF Len(workflowState.decomposition[1].subtasks) = 0
         THEN /\ workflowState' = [workflowState EXCEPT !.mainIssue = Some([number |-> 0]),
                                                        !.subIssues = <<>>]
              /\ solvePc' = "executeTestGeneration"
              /\ UNCHANGED <<loopIndex, localList, pendingError>>
         ELSE /\ workflowState' = [workflowState EXCEPT !.mainIssue = Some([number |-> 0])]
              /\ loopIndex' = 1
              /\ localList' = <<>>
              /\ solvePc' = "createSubIssue"
              /\ UNCHANGED pendingError
  /\ UNCHANGED <<currentTask, solveOutcome, phaseLog, calls, status>>

\* one iteration of the sub-issue loop: createSubIssue settles
CreateSubIssue(ok) ==
  LET list == workflowState.decomposition[1].subtasks
      subIssues == Append(localList, [number |-> loopIndex, subtask |-> list[loopIndex]])
  IN /\ solvePc = "createSubIssue"
     /\ IF ~ok
          THEN /\ Throw("Failed to create issue")
               /\ UNCHANGED <<workflowState, loopIndex, localList>>
          ELSE IF loopIndex < Len(list)
            THEN /\ loopIndex' = loopIndex + 1
                 /\ localList' = subIssues
                 /\ UNCHANGED <<workflowState, solvePc, pendingError>>
            ELSE /\ workflowState' = [workflowState EXCEPT !.subIssues = subIssues]
                 /\ loopIndex' = 0
                 /\ localList' = <<>>
                 /\ solvePc' = "executeTestGeneration"
                 /\ UNCHANGED pendingError
     /\ UNCHANGED <<currentTask, solveOutcome, phaseLog, calls, status>>

\* executeTestGeneration up to its first await (none when there is no sub-issue)
ExecuteTestGeneration ==
  /\ solvePc = "executeTestGeneration"
  /\ phaseLog' = Append(phaseLog, "test_generation")
  /\ IF Len(workflowState.subIssues) = 0
       THEN /\ workflowState' = [SetPhase(workflowState, "test_generation") EXCEPT !.tests = <<>>]
            /\ solvePc' = "executeSolutionSearch"
            /\ UNCHANGED <<loopIndex, localList>>
       ELSE /\ workflowState' = SetPhase(workflowState, "test_generation")
            /\ loopIndex' = 1
            /\ localList' = <<>>
            /\ solvePc' = "generateTest"
  /\ UNCHANGED <<currentTask, pendingError, solveOutcome, calls, status>>

TestOutcomes == {"test and PR created", "generateTest throws", "createTestPR throws"}

\* the test loop with tests.push moved after the try/catch: a test entry is
\* recorded for every sub-issue, also when its test could not be produced
GenerateTest_pushAlways(outcome) ==
  LET subIssue == workflowState.subIssues[loopIndex]
      tests == Append(localList, [subIssue |-> subIssue, testPR |-> loopIndex])
  IN /\ solvePc = "generateTest"
     /\ calls' = calls \o
          (IF outcome = "generateTest throws"
             THEN <<Call("generateTest", subIssue.number, FALSE)>>
             ELSE <<Call("generateTest", subIssue.number, TRUE),
                    Call("createTestPR", subIssue.number, outcome = "test and PR created")>>)
     /\ IF loopIndex < Len(workflowState.subIssues)
          THEN /\ loopIndex' = loopIndex + 1
               /\ localList' = tests
               /\ UNCHANGED <<workflowState, solvePc>>
          ELSE /\ workflowState' = [workflowState EXCEPT !.tests = tests]
               /\ loopIndex' = 0
               /\ localList' = <<>>
               /\ solvePc' = "executeSolutionSearch"
     /\ UNCHANGED <<currentTask, pendingError, solveOutcome, phaseLog, status>>

\* the test loop without its try/catch: a failure leaves the phase
GenerateTest_noCatch(outcome) ==
  LET subIssue == workflowState.subIssues[loopIndex]
      tests == Append(localList, [subIssue |-> subIssue, testPR |-> loopIndex])
  IN /\ solvePc = "generateTest"
     /\ calls' = calls \o
          (IF outcome = "generateTest throws"
             THEN <<Call("generateTest", subIssue.number, FALSE)>>
             ELSE <<Call("generateTest", subIssue.number, TRUE),
                    Call("createTestPR", subIssue.number, outcome = "test and PR created")>>)
     /\ IF outcome # "test and PR created"
          THEN /\ Throw("Failed to generate test")
               /\ UNCHANGED <<workflowState, loopIndex, localList>>
          ELSE IF loopIndex < Len(workflowState.subIssues)
            THEN /\ loopIndex' = loopIndex + 1
                 /\ localList' = tests
                 /\ UNCHANGED <<workflowState, solvePc, pendingError>>
            ELSE /\ workflowState' = [workflowState EXCEPT !.tests = tests]
                 /\ loopIndex' = 0
                 /\ localList' = <<>>
                 /\ solvePc' = "executeSolutionSearch"
                 /\ UNCHANGED pendingError
     /\ UNCHANGED <<currentTask, solveOutcome, phaseLog, status>>

\* one iteration of the test loop: generateTest and createTestPR, or the catch
GenerateTest(outcome) ==
  LET subIssue == workflowState.subIssues[loopIndex]
      tests == IF outcome = "test and PR created"
                 THEN Append(localList, [subIssue |-> subIssue, testPR |-> loopIndex])
                 ELSE localList
  IN /\ solvePc = "generateTest"
     /\ calls' = calls \o
          (IF outcome = "generateTest throws"
             THEN <<Call("generateTest", subIssue.number, FALSE)>>
             ELSE <<Call("generateTest", subIssue.number, TRUE),
                    Call("createTestPR", subIssue.number, outcome = "test and PR created")>>)
     /\ IF loopIndex < Len(workflowState.subIssues)
          THEN /\ loopIndex' = loopIndex + 1
               /\ localList' = tests
               /\ UNCHANGED <<workflowState, solvePc>>
          ELSE /\ workflowState' = [workflowState EXCEPT !.tests = tests]
               /\ loopIndex' = 0
               /\ localList' = <<>>
               /\ solvePc' = "executeSolutionSearch"
     /\ UNCHANGED <<currentTask, pendingError, solveOutcome, phaseLog, status>>

\* executeSolutionSearch up to its first await (none when there is no test)
ExecuteSolutionSearch ==
  /\ solvePc = "executeSolutionSearch"
  /\ phaseLog' = Append(phaseLog, "solution_search")
  /\ IF Len(workflowState.tests) = 0
       THEN /\ workflowState' = [SetPhase(workflowState, "solution_search") EXCEPT !.solutions = <<>>]
            /\ solvePc' = "executeSolutionComposition"
            /\ UNCHANGED <<loopIndex, localList>>
       ELSE /\ workflowState' = SetPhase(workflowState, "solution_search")
            /\ loopIndex' = 1
            /\ localList' = <<>>
            /\ solvePc' = "findSolution"
  /\ UNCHANGED <<currentTask, pendingError, solveOutcome, calls, status>>

SearchOutcomes == {"solution and PR created", "bestSolution is null",
                   "findSolution throws", "createSolutionPR throws"}

\* the solution loop with one entry pushed for the search result and another
\* for the solution PR
FindSolution_pushResultAndPR(outcome) ==
  LET test == workflowState.tests[loopIndex]
      solutions == IF outcome = "solution and PR created"
                     THEN localList \o
                            <<[test |-> test, bestSolution |-> Some("solution"),
                               solutionPR |-> loopIndex],
                              [test |-> test, bestSolution |-> Some("solution"),
                               solutionPR |-> loopIndex]>>
                     ELSE localList
  IN /\ solvePc = "findSolution"
     /\ calls' = calls \o
          (CASE outcome = "findSolution throws" ->
                  <<Call("findSolution", test.subIssue.number, FALSE)>>
             [] outcome = "bestSolution is null" ->
                  <<Call("findSolution", test.subIssue.number, TRUE)>>
             [] OTHER ->
                  <<Call("findSolution", test.subIssue.number, TRUE),
                    Call("createSolutionPR", test.subIssue.number,
                         outcome = "solution and PR created")>>)
     /\ IF loopIndex < Len(workflowState.tests)
          THEN /\ loopIndex' = loopIndex + 1
               /\ localList' = solutions
               /\ UNCHANGED <<workflowState, solvePc>>
          ELSE /\ workflowState' = [workflowState EXCEPT !.solutions = solutions]
               /\ loopIndex' = 0
               /\ localList' = <<>>
               /\ solvePc' = "executeSolutionComposition"
     /\ UNCHANGED <<currentTask, pendingError, solveOutcome, phaseLog, status>>

\* one iteration of the solution loop: findSolution, then createSolutionPR when
\* bestSolution is not null, or the catch
FindSolution(outcome) ==
  LET test == workflowState.tests[loopIndex]
      solutions == IF outcome = "solution and PR created"
                     THEN Append(localList, [test |-> test, bestSolution |-> Some("solution"),
                                             solutionPR |-> loopIndex])
                     ELSE localList
  IN /\ solvePc = "findSolution"
     /\ calls' = calls \o
          (CASE outcome = "findSolution throws" ->
                  <<Call("findSolution", test.subIssue.number, FALSE)>>
             [] outcome = "bestSolution is null" ->
                  <<Call("findSolution", test.subIssue.number, TRUE)>>
             [] OTHER ->
                  <<Call("findSolution", test.subIssue.number, TRUE),
                    Call("createSolutionPR", test.subIssue.number,
                         outcome = "solution and PR created")>>)
     /\ IF loopIndex < Len(workflowState.tests)
          THEN /\ loopIndex' = loopIndex + 1
               /\ localList' = solutions
               /\ UNCHANGED <<workflowState, solvePc>>
          ELSE /\ workflowState' = [workflowState EXCEPT !.solutions = solutions]
               /\ loopIndex' = 0
               /\ localList' = <<>>
               /\ solvePc' = "executeSolutionComposition"
     /\ UNCHANGED <<currentTask, pendingError, solveOutcome, phaseLog, status>>

HasBestSolution(s) == s.bestSolution # None

\* partialSolutions of executeSolutionComposition
PartialSolutions(ws) == SelectSeq(ws.solutions, HasBestSolution)

\* executeSolutionComposition without the check of partialSolutions.length
ExecuteSolutionComposition_noCheck ==
  /\ solvePc = "executeSolutionComposition"
  /\ workflowState' = SetPhase(workflowState, "solution_composition")
  /\ phaseLog' = Append(phaseLog, "solution_composition")
  /\ solvePc' = "composeSolutions"
  /\ UNCHANGED <<currentTask, loopIndex, localList, pendingError, solveOutcome,
                 calls, status>>

\* executeSolutionComposition up to "await composeSolutions(...)", or its throw
ExecuteSolutionComposition ==
  LET partialSolutions == PartialSolutions(workflowState)
  IN /\ solvePc = "executeSolutionComposition"
     /\ workflowState' = SetPhase(workflowState, "solution_composition")
     /\ phaseLog' = Append(phaseLog, "solution_composition")
     /\ IF Len(partialSolutions) = 0
          THEN Throw(NoViableSolutions)
          ELSE /\ solvePc' = "composeSolutions"
               /\ UNCHANGED pendingError
     /\ UNCHANGED <<currentTask, loopIndex, localList, solveOutcome, calls, status>>

\* composeSolutions settles
ComposeSolutions(ok) ==
  /\ solvePc = "composeSolutions"
  /\ calls' = Append(calls, Call("composeSolutions", Len(PartialSolutions(workflowState)), ok))
  /\ IF ok
       THEN /\ workflowState' = [workflowState EXCEPT !.composition = Some("composition")]
            /\ solvePc' = "createSolutionPackage"
            /\ UNCHANGED pendingError
       ELSE /\ Throw("composeSolutions failed")
            /\ UNCHANGED workflowState
  /\ UNCHANGED <<currentTask, loopIndex, localList, solveOutcome, phaseLog, status>>

\* createSolutionPackage settles
CreateSolutionPackage(ok) ==
  /\ solvePc = "createSolutionPackage"
  /\ calls' = Append(calls, Call("createSolutionPackage", Len(PartialSolutions(workflowState)), ok))
  /\ IF ok
       THEN /\ workflowState' = [workflowState EXCEPT !.solutionPackage = Some("package")]
            /\ solvePc' = "completeWorkflow"
            /\ UNCHANGED pendingError
       ELSE /\ Throw("createSolutionPackage failed")
            /\ UNCHANGED workflowState
  /\ UNCHANGED <<currentTask, loopIndex, localList, solveOutcome, phaseLog, status>>

\* generateWorkflowSummary with the success rate taken over the generated
\* tests instead of the sub-issues
generateWorkflowSummary_perTest(ws) ==
  [subtasksTotal |-> Len(ws.subIssues),
   testsGenerated |-> Len(ws.tests),
   solutionsFound |-> Len(ws.solutions),
   successRate |-> IF Len(ws.tests) = 0 THEN -1
                   ELSE (200 * Len(ws.solutions) + Len(ws.tests)) \div (2 * Len(ws.tests))]

\* generateWorkflowSummary: the statistics; successRate is
\* Math.round(solutions.length / subIssues.length * 100), which is NaN or
\* Infinity (written -1) when there are no sub-issues
generateWorkflowSummary(ws) ==
  [subtasksTotal |-> Len(ws.subIssues),
   testsGenerated |-> Len(ws.tests),
   solutionsFound |-> Len(ws.solutions),
   successRate |-> IF Len(ws.subIssues) = 0 THEN -1
                   ELSE (200 * Len(ws.solutions) + Len(ws.subIssues)) \div (2 * Len(ws.subIssues))]

\* completeWorkflow up to "await this.githubClient.addComment(...)"
CompleteWorkflow ==
  LET completed == [SetPhase(workflowState, "completed") EXCEPT !.endTime = Some("time")]
  IN /\ solvePc = "completeWorkflow"
     /\ phaseLog' = Append(phaseLog, "completed")
     /\ IF workflowState.mainIssue # None
          THEN /\ workflowState' = completed
               /\ solvePc' = "addComment"
          ELSE /\ workflowState' = [completed EXCEPT !.summary = Some(generateWorkflowSummary(completed))]
               /\ solvePc' = "resolved"
     /\ UNCHANGED <<currentTask, loopIndex, localList, pendingError, solveOutcome, calls, status>>

\* addComment settles; on success the summary is stored and solve() resolves
AddComment(ok) ==
  /\ solvePc = "addComment"
  /\ IF ok
       THEN /\ workflowState' = [workflowState EXCEPT !.summary = Some(generateWorkflowSummary(workflowState))]
            /\ solvePc' = "resolved"
            /\ UNCHANGED pendingError
       ELSE /\ Throw("Failed to add comment")
            /\ UNCHANGED workflowState
  /\ UNCHANGED <<currentTask, loopIndex, localList, solveOutcome, phaseLog, calls, status>>

\* the catch block of solve() without "this.workflowState.phase = 'failed'"
Catch_phaseKept ==
  /\ solvePc = "catch"
  /\ workflowState' = [workflowState EXCEPT !.error = pendingError, !.endTime = Some("time")]
  /\ solveOutcome' = pendingError
  /\ solvePc' = "rejected"
  /\ UNCHANGED <<currentTask, loopIndex, localList, pendingError, phaseLog, calls, status>>

\* the catch block of solve(): phase failed, error message, endTime, rethrow
Catch ==
  /\ solvePc = "catch"
  /\ workflowState' = [SetPhase(workflowState, "failed") EXCEPT
                         !.error = pendingError, !.endTime = Some("time")]
  /\ phaseLog' = Append(phaseLog, "failed")
  /\ solveOutcome' = pendingError
  /\ solvePc' = "rejected"
  /\ UNCHANGED <<currentTask, loopIndex, localList, pendingError, calls, status>>

\* reset(), called while no solve() is in flight
Reset ==
  /\ solvePc \in {"idle", "resolved", "rejected"}
  /\ currentTask' = None
  /\ workflowState' = ResetWorkflowState
  /\ solvePc' = "idle"
  /\ loopIndex' = 0
  /\ localList' = <<>>
  /\ pendingError' = None
  /\ solveOutcome' = None
  /\ phaseLog' = <<>>
  /\ calls' = <<>>
  /\ UNCHANGED status

\* a pause() that records the pause in the phase as well
Pause_setsPhase ==
  /\ workflowState' = [workflowState EXCEPT !.phase = "paused",
                                            !.paused = Some(TRUE),
                                            !.pausedAt = Some("time")]
  /\ UNCHANGED <<currentTask, solvePc, loopIndex, localList, pendingError,
                 solveOutcome, phaseLog, calls, status>>

\* pause(): callable at any moment, also between two steps of a solve()
Pause ==
  /\ workflowState' = [workflowState EXCEPT !.paused = Some(TRUE),
                                            !.pausedAt = Some("time")]
  /\ UNCHANGED <<currentTask, solvePc, loopIndex, localList, pendingError,
                 solveOutcome, phaseLog, calls, status>>

\* resume(): callable at any moment
Resume ==
  /\ workflowState' = [workflowState EXCEPT !.paused = Some(FALSE),
                                            !.resumedAt = Some("time")]
  /\ UNCHANGED <<currentTask, solvePc, loopIndex, localList, pendingError,
                 solveOutcome, phaseLog, calls, status>>

\* Array.prototype.indexOf, 0-based, -1 when absent
indexOf(list, x) ==
  IF \E i \in 1..Len(list) : list[i] = x
    THEN (CHOOSE i \in 1..Len(list) :
            list[i] = x /\ \A j \in 1..(i - 1) : list[j] # x) - 1
    ELSE -1

\* Math.round(a / b) for a >= 0 and b > 0: halves round up
MathRound(a, b) == (2 * a + b) \div (2 * b)

\* the phases array of calculateProgress
ProgressPhases == <<"decomposition", "issue_creation", "test_generation",
                    "solution_search", "solution_composition">>

\* calculateProgress without the special case for 'completed'
calculateProgress_noSpecialCase(phase) ==
  LET currentPhaseIndex == indexOf(ProgressPhases, phase)
  IN IF currentPhaseIndex = -1 THEN 0
     ELSE MathRound(currentPhaseIndex * 100, Len(ProgressPhases))

\* the calculateProgress of an orchestrator whose phases array lists
\* 'completed' as well and has no special case for it
calculateProgress_completedListed(phase) ==
  LET phases == Append(ProgressPhases, "completed")
      currentPhaseIndex == indexOf(phases, phase)
  IN IF currentPhaseIndex = -1 THEN 0
     ELSE MathRound(currentPhaseIndex * 100, Len(phases))

\* calculateProgress, as a function of workflowState.phase
calculateProgress(phase) ==
  LET currentPhaseIndex == indexOf(ProgressPhases, phase)
  IN IF currentPhaseIndex = -1
       THEN (IF phase = "completed" THEN 100 ELSE 0)
       ELSE MathRound(currentPhaseIndex * 100, Len(ProgressPhases))

\* getStatus(): phase, progress and task of the returned object
GetStatus ==
  /\ status' = Some([phase |-> workflowState.phase,
                     progress |-> calculateProgress(workflowState.phase),
                     task |-> currentTask])
  /\ UNCHANGED <<currentTask, workflowState, solvePc, loopIndex, localList,
                 pendingError, solveOutcome, phaseLog, calls>>

\* the dependency lists of the decompositions given to solve(): none, or one
\* id, which may be the subtask's own, another subtask's or an absent one
SolveDepLists == {<<>>} \cup {<<i>> : i \in 1..MaxSolveSubtasks}

\* one solve() at a time on a fresh or reset instance
Next ==
  \/ solvePc = "idle" /\ Solve /\ UNCHANGED <<graphVars, searchVars, managerVars, concurrentVars, pipelineVars>>
  \/ ExecuteDecomposition([error |-> TRUE, subtasks |-> <<>>]) /\ UNCHANGED <<graphVars, searchVars, managerVars, concurrentVars, pipelineVars>>
  \/ /\ solvePc = "decompose"
     /\ \E n \in 0..MaxSolveSubtasks : \E deps \in SeqsOfLen(SolveDepLists, n) :
          ExecuteDecomposition([error |-> FALSE, subtasks |-> SubtaskList(deps)])
     /\ UNCHANGED <<graphVars, searchVars, managerVars, concurrentVars, pipelineVars>>
  \/ ExecuteIssueCreation /\ UNCHANGED <<graphVars, searchVars, managerVars, concurrentVars, pipelineVars>>
  \/ \E ok \in BOOLEAN : CreateIssue(ok) /\ UNCHANGED <<graphVars, searchVars, managerVars, concurrentVars, pipelineVars>>
  \/ \E ok \in BOOLEAN : CreateSubIssue(ok) /\ UNCHANGED <<graphVars, searchVars, managerVars, concurrentVars, pipelineVars>>
  \/ ExecuteTestGeneration /\ UNCHANGED <<graphVars, searchVars, managerVars, concurrentVars, pipelineVars>>
  \/ \E outcome \in TestOutcomes : GenerateTest(outcome) /\ UNCHANGED <<graphVars, searchVars, managerVars, concurrentVars, pipelineVars>>
  \/ ExecuteSolutionSearch /\ UNCHANGED <<graphVars, searchVars, managerVars, concurrentVars, pipelineVars>>
  \/ \E outcome \in SearchOutcomes : FindSolution(outcome) /\ UNCHANGED <<graphVars, searchVars, managerVars, concurrentVars, pipelineVars>>
  \/ ExecuteSolutionComposition /\ UNCHANGED <<graphVars, searchVars, managerVars, concurrentVars, pipelineVars>>
  \/ \E ok \in BOOLEAN : ComposeSolutions(ok) /\ UNCHANGED <<graphVars, searchVars, managerVars, concurrentVars, pipelineVars>>
  \/ \E ok \in BOOLEAN : CreateSolutionPackage(ok) /\ UNCHANGED <<graphVars, searchVars, managerVars, concurrentVars, pipelineVars>>
  \/ CompleteWorkflow /\ UNCHANGED <<graphVars, searchVars, managerVars, concurrentVars, pipelineVars>>
  \/ \E ok \in BOOLEAN : AddComment(ok) /\ UNCHANGED <<graphVars, searchVars, managerVars, concurrentVars, pipelineVars>>
  \/ Catch /\ UNCHANGED <<graphVars, searchVars, managerVars, concurrentVars, pipelineVars>>
  \/ Reset /\ UNCHANGED <<graphVars, searchVars, managerVars, concurrentVars, pipelineVars>>

Spec == Init /\ [][Next]_vars

\* ------------------------------------------------------------------------
\* Specification of a solve() during which reset() may be called while the
\* decomposer call is pending. reset() replaces currentTask and workflowState;
\* the solve() in flight keeps its position and goes on with this.workflowState,
\* which is now the object reset() assigned.
\* ------------------------------------------------------------------------
ResetDuringDecomposition ==
  /\ solvePc = "decompose"
  /\ currentTask # None
  /\ currentTask' = None
  /\ workflowState' = ResetWorkflowState
  /\ UNCHANGED <<solvePc, loopIndex, localList, pendingError, solveOutcome, phaseLog,
                 calls, status>>

NextResetInFlight ==
  \/ Next
  \/ ResetDuringDecomposition /\ UNCHANGED <<graphVars, searchVars, managerVars, concurrentVars, pipelineVars>>

SpecResetInFlight == Init /\ [][NextResetInFlight]_vars

\* ------------------------------------------------------------------------
\* Specification of the whole public interface of UniversalAlgorithm: solve()
\* also without a reset() in between, pause(), resume(), getStatus() and
\* reset(), with decompositions of up to MaxControlSubtasks independent subtasks
\* ------------------------------------------------------------------------
ControlTestOutcomes == {"test and PR created", "generateTest throws"}

ControlSearchOutcomes == {"solution and PR created", "bestSolution is null"}

NextControl ==
  \/ Solve /\ UNCHANGED <<graphVars, searchVars, managerVars, concurrentVars, pipelineVars>>
  \/ /\ solvePc = "decompose"
     /\ \E n \in 0..MaxControlSubtasks :
          ExecuteDecomposition([error |-> FALSE,
                                subtasks |-> SubtaskList([i \in 1..n |-> <<>>])])
     /\ UNCHANGED <<graphVars, searchVars, managerVars, concurrentVars, pipelineVars>>
  \/ ExecuteIssueCreation /\ UNCHANGED <<graphVars, searchVars, managerVars, concurrentVars, pipelineVars>>
  \/ \E ok \in BOOLEAN : CreateIssue(ok) /\ UNCHANGED <<graphVars, searchVars, managerVars, concurrentVars, pipelineVars>>
  \/ \E ok \in BOOLEAN : CreateSubIssue(ok) /\ UNCHANGED <<graphVars, searchVars, managerVars, concurrentVars, pipelineVars>>
  \/ ExecuteTestGeneration /\ UNCHANGED <<graphVars, searchVars, managerVars, concurrentVars, pipelineVars>>
  \/ \E outcome \in ControlTestOutcomes : GenerateTest(outcome) /\ UNCHANGED <<graphVars, searchVars, managerVars, concurrentVars, pipelineVars>>
  \/ ExecuteSolutionSearch /\ UNCHANGED <<graphVars, searchVars, managerVars, concurrentVars, pipelineVars>>
  \/ \E outcome \in ControlSearchOutcomes : FindSolution(outcome) /\ UNCHANGED <<graphVars, searchVars, managerVars, concurrentVars, pipelineVars>>
  \/ ExecuteSolutionComposition /\ UNCHANGED <<graphVars, searchVars, managerVars, concurrentVars, pipelineVars>>
  \/ \E ok \in BOOLEAN : ComposeSolutions(ok) /\ UNCHANGED <<graphVars, searchVars, managerVars, concurrentVars, pipelineVars>>
  \/ \E ok \in BOOLEAN : CreateSolutionPackage(ok) /\ UNCHANGED <<graphVars, searchVars, managerVars, concurrentVars, pipelineVars>>
  \/ CompleteWorkflow /\ UNCHANGED <<graphVars, searchVars, managerVars, concurrentVars, pipelineVars>>
  \/ \E ok \in BOOLEAN : AddComment(ok) /\ UNCHANGED <<graphVars, searchVars, managerVars, concurrentVars, pipelineVars>>
  \/ Catch /\ UNCHANGED <<graphVars, searchVars, managerVars, concurrentVars, pipelineVars>>
  \/ Reset /\ UNCHANGED <<graphVars, searchVars, managerVars, concurrentVars, pipelineVars>>
  \/ Pause /\ UNCHANGED <<graphVars, searchVars, managerVars, concurrentVars, pipelineVars>>
  \/ Resume /\ UNCHANGED <<graphVars, searchVars, managerVars, concurrentVars, pipelineVars>>
  \/ GetStatus /\ UNCHANGED <<graphVars, searchVars, managerVars, concurrentVars, pipelineVars>>

SpecControl == Init /\ [][NextControl]_vars

\* ------------------------------------------------------------------------
\* Claims on UniversalAlgorithm.solve (Spec)
\* ------------------------------------------------------------------------
CanonicalPhases == <<"decomposition", "issue_creation", "test_generation",
                     "solution_search", "solution_composition", "completed">>

IsPrefix(p, q) == Len(p) <= Len(q) /\ \A i \in 1..Len(p) : p[i] = q[i]

Settled == solvePc \in {"resolved", "rejected"}

\* C4: if the decomposed subtask set contains a dependency cycle, solve() never
\* sets the phase to issue_creation or a later phase, and the run ends in
\* phase failed while still in decomposition.
C4_CycleStopsAtDecomposition ==
  (/\ workflowState.decomposition # None
   /\ HasCycle(workflowState.decomposition[1].subtasks)) =>
    /\ Range(phaseLog) \subseteq {"decomposition", "failed"}
    /\ Settled => workflowState.phase = "failed"

\* C9: during one solve() started from the idle state the successive values of
\* workflowState.phase are a prefix of the canonical phase sequence, optionally
\* followed by failed; phase is failed exactly when a phase step threw, and
\* then solve() rejects with that error after recording its message and endTime.
C9_PhaseSequence ==
  /\ (solvePc # "idle") =>
       /\ phaseLog # <<>>
       /\ workflowState.phase = phaseLog[Len(phaseLog)]
       /\ \/ IsPrefix(phaseLog, CanonicalPhases)
          \/ /\ phaseLog[Len(phaseLog)] = "failed"
             /\ Len(phaseLog) >= 2
             /\ IsPrefix(SubSeq(phaseLog, 1, Len(phaseLog) - 1), CanonicalPhases)
  /\ (workflowState.phase = "failed") <=> (solvePc = "rejected")
  /\ (pendingError # None) <=> (solvePc \in {"catch", "rejected"})
  /\ (solvePc = "rejected") =>
       /\ solveOutcome = pendingError
       /\ workflowState.error = pendingError
       /\ workflowState.endTime # None
  /\ (solvePc = "resolved") =>
       /\ workflowState.phase = "completed"
       /\ solveOutcome = None

\* C9 witness: a run went through all six phases and then failed, because the
\* completion comment could not be added; solve() rejected with that error.
C9_Witness ==
  /\ solvePc = "rejected"
  /\ phaseLog = CanonicalPhases \o <<"failed">>
  /\ solveOutcome = Some("Failed to add comment")
  /\ workflowState.error = Some("Failed to add comment")

\* C10: a run of solve() is aborted (phase failed, error rethrown) only by an
\* invalid decomposition, a dependency cycle or the absence of any viable
\* solution; no other collaborator failure, in any phase, aborts the run.
C10_OnlyThreeAbortCauses ==
  (pendingError # None) =>
    pendingError \in {Some("Invalid decomposition"),
                      Some("Circular dependency detected"),
                      Some(NoViableSolutions)}

\* the settled calls of one collaborator method, and their arguments, in order
CallsOf(fn) == SelectSeq(calls, LAMBDA c : c.fn = fn)

ArgsOf(fn) == [i \in 1..Len(CallsOf(fn)) |-> CallsOf(fn)[i].arg]

\* the numbers of the first n recorded sub-issues, in order
SubIssueNumbers(n) == [i \in 1..n |-> workflowState.subIssues[i].number]

PhaseNow == IF phaseLog = <<>> THEN "idle" ELSE phaseLog[Len(phaseLog)]

\* C11: in test_generation, whatever per-subtask failures occur (generateTest
\* or createTestPR throwing), test generation is attempted for every sub-issue
\* in order, no error leaves the phase and the next step is solution_search.
C11_TestFailuresContained ==
  /\ (PhaseNow = "test_generation") =>
       /\ pendingError = None
       /\ solvePc \in {"generateTest", "executeSolutionSearch"}
       /\ (solvePc = "generateTest") =>
            ArgsOf("generateTest") = SubIssueNumbers(loopIndex - 1)
  /\ ((PhaseNow = "test_generation" /\ solvePc = "executeSolutionSearch")
        \/ "solution_search" \in Range(phaseLog)) =>
       ArgsOf("generateTest") = SubIssueNumbers(Len(workflowState.subIssues))

\* C11 witness: both kinds of failure occurred, one for each of two sub-issues,
\* no test was recorded and the run is in solution_search.
C11_Witness ==
  /\ workflowState.phase = "solution_search"
  /\ Len(workflowState.subIssues) = 2
  /\ Call("generateTest", 1, FALSE) \in Range(calls)
  /\ Call("createTestPR", 2, FALSE) \in Range(calls)
  /\ workflowState.tests = <<>>

\* the sub-issues whose test was produced in this run: generateTest and
\* createTestPR both resolved
ProducedTests ==
  {k \in {c.arg : c \in Range(calls)} :
     /\ Call("generateTest", k, TRUE) \in Range(calls)
     /\ Call("createTestPR", k, TRUE) \in Range(calls)}

\* C12: solution_search calls the solution searcher only for subtasks whose
\* test was produced in test_generation; a subtask without a usable test is
\* never searched and never appears in the recorded solutions.
C12_SearchOnlyWithTest ==
  /\ \A c \in Range(calls) : (c.fn = "findSolution") => c.arg \in ProducedTests
  /\ (solvePc = "findSolution") =>
       /\ workflowState.tests[loopIndex].subIssue.number \in ProducedTests
       /\ \A s \in Range(localList) : s.test.subIssue.number \in ProducedTests
  /\ \A s \in Range(workflowState.solutions) : s.test.subIssue.number \in ProducedTests

\* C12 witness: of two sub-issues the first got no test and the second did;
\* the searcher was called once, for the second, whose solution is recorded.
C12_Witness ==
  /\ Len(workflowState.subIssues) = 2
  /\ Call("generateTest", 1, FALSE) \in Range(calls)
  /\ ProducedTests = {2}
  /\ ArgsOf("findSolution") = <<2>>
  /\ Len(workflowState.solutions) = 1
  /\ workflowState.solutions[1].test.subIssue.number = 2

ComposerCalled ==
  \/ solvePc \in {"composeSolutions", "createSolutionPackage"}
  \/ \E c \in Range(calls) : c.fn \in {"composeSolutions", "createSolutionPackage"}

\* C13: solution_composition calls the composer only if at least one subtask
\* produced a usable solution; when none did, the phase throws the
\* no-viable-solutions error without calling the composer and the run ends in
\* phase failed.
C13_ComposerNeedsSolution ==
  /\ ComposerCalled => Len(PartialSolutions(workflowState)) >= 1
  /\ ("solution_composition" \in Range(phaseLog)
        /\ Len(PartialSolutions(workflowState)) = 0) =>
       /\ ~ComposerCalled
       /\ pendingError = Some(NoViableSolutions)
       /\ solvePc \in {"catch", "rejected"}
       /\ (solvePc = "rejected") =>
            /\ workflowState.phase = "failed"
            /\ phaseLog[Len(phaseLog) - 1] = "solution_composition"
            /\ solveOutcome = Some(NoViableSolutions)

\* C13 witness: tests were produced for two sub-issues, the searcher found no
\* solution for either, and the run failed with the no-viable-solutions error.
C13_Witness ==
  /\ solvePc = "rejected"
  /\ workflowState.phase = "failed"
  /\ workflowState.error = Some(NoViableSolutions)
  /\ Len(workflowState.tests) = 2
  /\ Len(CallsOf("findSolution")) = 2
  /\ workflowState.solutions = <<>>
  /\ ~ComposerCalled

\* a step of solve() that takes the run from one phase into the following one
NextPhaseEntered ==
  /\ phaseLog # <<>>
  /\ phaseLog' = Append(phaseLog, workflowState'.phase)
  /\ workflowState'.phase # "failed"

\* C14: while the paused flag is true, solve() does not move to the next
\* phase: every step that enters a following phase is taken with paused false.
C14_PausedGatesNextPhase ==
  [][NextPhaseEntered => workflowState.paused # Some(TRUE)]_vars

\* the fields of workflowState that pause() and resume() write
PauseFields == {"paused", "pausedAt", "resumedAt"}

\* C15: pause() and resume(), called at any point, also between two steps of a
\* solve() in flight, change only paused, pausedAt and resumedAt: phase,
\* decomposition, subIssues, tests, solutions, composition and every other
\* field, and currentTask, stay as they were.
C15_PauseResumeFrame ==
  [][(Pause \/ Resume) =>
       /\ \A f \in (DOMAIN workflowState) \ PauseFields :
            workflowState'[f] = workflowState[f]
       /\ DOMAIN workflowState' = DOMAIN workflowState
       /\ currentTask' = currentTask]_vars

\* C15 witness: the instance was resumed and paused again while a solve() is in
\* its test loop, with sub-issues recorded and the phase still test_generation.
C15_Witness ==
  /\ solvePc = "generateTest"
  /\ workflowState.paused = Some(TRUE)
  /\ workflowState.pausedAt # None
  /\ workflowState.resumedAt # None
  /\ workflowState.phase = "test_generation"
  /\ workflowState.subIssues # <<>>

\* C16: once the phase of a run has become completed, no later step of that
\* run changes the phase: a run that reached completed never ends in failed.
C16_CompletedIsFinal ==
  ("completed" \in Range(phaseLog)) => workflowState.phase = "completed"

\* the recorded subtasks of a workflow state (none before decomposition)
RecordedSubtasks(ws) ==
  IF ws.decomposition = None THEN <<>> ELSE ws.decomposition[1].subtasks

\* C17: the recorded subtasks, tests, solutions and composition only
\* accumulate: no step other than reset() clears or replaces them, neither in
\* a failed run nor in a second solve() on the same instance.
C17_RecordsOnlyAccumulate ==
  [][~Reset =>
       /\ IsPrefix(RecordedSubtasks(workflowState), RecordedSubtasks(workflowState'))
       /\ IsPrefix(workflowState.tests, workflowState'.tests)
       /\ IsPrefix(workflowState.solutions, workflowState'.solutions)
       /\ (workflowState.composition # None) =>
            workflowState'.composition = workflowState.composition]_vars

\* C18: reset() with no run in flight leaves currentTask null and
\* workflowState equal to that of a freshly constructed orchestrator: phase
\* idle, the three lists empty, decomposition, mainIssue, composition,
\* startTime and endTime null, and no paused, error or summary field.
C18_ResetRestoresConstructedState ==
  [][Reset =>
       /\ currentTask' = None
       /\ workflowState' = InitialWorkflowState
       /\ workflowState'.phase = "idle"
       /\ workflowState'.subIssues = <<>>
       /\ workflowState'.tests = <<>>
       /\ workflowState'.solutions = <<>>
       /\ \A f \in (DOMAIN workflowState') \ {"phase", "subIssues", "tests", "solutions"} :
            workflowState'[f] = None]_vars

\* C18 witness: getStatus() once reported a failed run, so an error was
\* recorded, and the instance is now back in the constructed state.
C18_Witness ==
  /\ status # None
  /\ status[1].phase = "failed"
  /\ status[1].task # None
  /\ solvePc = "idle"
  /\ currentTask = None
  /\ workflowState = InitialWorkflowState

\* the phases a run has been in, from idle on, without a final failed
PhasesPassed ==
  <<"idle">> \o SelectSeq(phaseLog, LAMBDA ph : ph # "failed")

\* C19: along the canonical phase sequence idle, decomposition,
\* issue_creation, test_generation, solution_search, solution_composition,
\* completed of a single run, calculateProgress never decreases from one phase
\* to the next.
C19_ProgressMonotone ==
  \A i \in 1..(Len(PhasesPassed) - 1) :
    calculateProgress(PhasesPassed[i]) <= calculateProgress(PhasesPassed[i + 1])

\* C19 witness: a run has passed through the whole canonical sequence and
\* getStatus() reported its progress at the end.
C19_Witness ==
  /\ PhasesPassed = <<"idle">> \o CanonicalPhases
  /\ solvePc = "resolved"
  /\ status # None
  /\ status[1].phase = "completed"
  /\ status[1].progress = calculateProgress("completed")

\* the progress the canonical phases are documented to report
ExpectedProgress(phase) ==
  CASE phase = "idle" -> 0
    [] phase = "decomposition" -> 0
    [] phase = "issue_creation" -> 20
    [] phase = "test_generation" -> 40
    [] phase = "solution_search" -> 60
    [] phase = "solution_composition" -> 80
    [] phase = "completed" -> 100

\* C20: calculateProgress returns 0 for idle and for decomposition, 20 for
\* issue_creation, 40 for test_generation, 60 for solution_search, 80 for
\* solution_composition and 100 for completed, in every getStatus() result.
C20_ProgressTable ==
  (status # None /\ status[1].phase # "failed") =>
    status[1].progress = ExpectedProgress(status[1].phase)

\* C20 witness: getStatus() was called during solution_search and reported 60.
C20_Witness ==
  /\ status # None
  /\ status[1].phase = "solution_search"
  /\ status[1].progress = 60
  /\ workflowState.phase = "solution_search"

\* ------------------------------------------------------------------------
\* Claims on decompose and processDecompositionResult (SpecDecompose)
\* ------------------------------------------------------------------------
\* C22: decompose fails with an error whenever normalization yields zero
\* subtasks; it never returns a decomposition whose subtask list is empty.
C22_NoEmptyDecomposition ==
  (called = "decompose") => (ret.threw \/ Len(ret.value.subtasks) >= 1)

\* C23: for every raw subtask list, with ids supplied for all, some or none
\* of the entries, the ids of the subtasks produced by
\* processDecompositionResult are pairwise distinct.
C23_ProcessedIdsDistinct ==
  (called = "processDecompositionResult") => DistinctIds(ret.value)

\* C24: after processDecompositionResult every id in every subtask's
\* dependencies is the id of a subtask of the result (dependencies on absent
\* ids, also those cut off by the maxSubtasks limit, are removed), and no
\* dependency on a present id is removed.
C24_DependenciesFiltered ==
  (called = "processDecompositionResult") =>
    /\ Len(ret.value) <= Len(subtasks)
    /\ \A i \in 1..Len(ret.value) :
         /\ Range(ret.value[i].dependencies) \subseteq IdsOf(ret.value)
         /\ Range(ret.value[i].dependencies) =
              Range(subtasks[i].dependencies) \cap IdsOf(ret.value)
         /\ NoRepeat(ret.value[i].dependencies)

\* C24 witness: the limit cut the second raw subtask off and the first one's
\* dependency on it was removed.
C24_Witness ==
  /\ called = "processDecompositionResult"
  /\ Len(subtasks) = 2 /\ Len(ret.value) = 1
  /\ subtasks[2].id \in Range(subtasks[1].dependencies)
  /\ subtasks[2].id # ret.value[1].id
  /\ ret.value[1].dependencies = <<>>

\* ------------------------------------------------------------------------
\* Further claims on the TaskDecomposer ordering functions (SpecGraph)
\* ------------------------------------------------------------------------
\* neither subtask depends on the other, directly or transitively
Unordered(list, a, b) == a \notin DependsOn(list, b) /\ b \notin DependsOn(list, a)

\* the subtask with this id is needed, directly or transitively, by a subtask
\* declared before position i
PulledForwardBefore(list, id, i) ==
  \E k \in 1..(i - 1) : id \in DependsOn(list, list[k].id)

\* C25 (as stated): whenever two subtasks of an acyclic set are not ordered by
\* any direct or transitive dependency, getSubtasksInOrder emits them in their
\* original declaration order.
C25_UnorderedKeepDeclarationOrder ==
  (called = "getSubtasksInOrder" /\ ~ret.threw) =>
    \A i, j \in 1..Len(subtasks) :
      (i < j /\ Unordered(subtasks, subtasks[i].id, subtasks[j].id)) =>
        PositionOf(ret.value, subtasks[i].id) < PositionOf(ret.value, subtasks[j].id)

\* C25 (amended): two subtasks of an acyclic set that are not ordered by any
\* dependency are emitted in declaration order unless the later-declared one
\* is a direct or transitive dependency of a subtask declared before the
\* earlier one; the depth-first traversal emits such a subtask early, together
\* with the subtask that needs it.
C25_DeclarationOrderUnlessPulledForward ==
  (called = "getSubtasksInOrder" /\ ~ret.threw) =>
    \A i, j \in 1..Len(subtasks) :
      (/\ i < j
       /\ Unordered(subtasks, subtasks[i].id, subtasks[j].id)
       /\ ~PulledForwardBefore(subtasks, subtasks[j].id, i)) =>
        PositionOf(ret.value, subtasks[i].id) < PositionOf(ret.value, subtasks[j].id)

\* C25 witness: subtask 1 depends on subtask 3 and subtask 2 on nothing; the
\* order is 3, 1, 2: the unordered pair 1, 2 keeps its declaration order and 3
\* is emitted before the earlier-declared subtask 2.
C25_Witness ==
  /\ called = "getSubtasksInOrder" /\ ~ret.threw
  /\ Len(subtasks) = 3
  /\ subtasks[1].dependencies = <<3>>
  /\ subtasks[2].dependencies = <<>>
  /\ subtasks[3].dependencies = <<>>
  /\ [i \in 1..3 |-> ret.value[i].id] = <<3, 1, 2>>

\* C27: every batch returned by getParallelSubtasks can run concurrently: no
\* batch contains two subtasks of which one depends on the other, directly or
\* through a chain of dependencies.
C27_BatchMembersIndependent ==
  (called = "getParallelSubtasks" /\ ~ret.threw) =>
    \A g \in 1..Len(ret.value) :
      \A a, b \in IdsOf(ret.value[g]) : a # b => b \notin DependsOn(subtasks, a)

\* the subtask a recorded solution belongs to
SubtaskOfSolution(sol) == sol.test.subIssue.subtask

\* C26: the partial solutions handed to the composer are in the same relative
\* order as their subtasks in the topological order of the task graph: a
\* subtask's solution never precedes the solution of a subtask it depends on.
C26_SolutionsInDependencyOrder ==
  (/\ solvePc = "composeSolutions"
   /\ ~HasCycle(RecordedSubtasks(workflowState))) =>
    LET partialSolutions == PartialSolutions(workflowState)
    IN \A i, j \in 1..Len(partialSolutions) :
         (i < j) =>
           SubtaskOfSolution(partialSolutions[j]).id \notin
             DependsOn(RecordedSubtasks(workflowState),
                       SubtaskOfSolution(partialSolutions[i]).id)

\* ------------------------------------------------------------------------
\* Specification of RepositoryManager.handleRateLimit and executeWithRateLimit.
\* An error is its status, whether its message includes 'rate limit', and the
\* x-ratelimit-reset header of its response (seconds since the epoch) if any.
\* ------------------------------------------------------------------------
Statuses == {403, 429, 500}

ResetHeaders == {None} \cup {Some(t) : t \in 0..MaxResetSeconds}

ApiErrors == [status : Statuses, rateLimitMessage : BOOLEAN, reset : ResetHeaders]

InitManager ==
  /\ GraphIdle
  /\ SearchIdle
  /\ SolveIdle
  /\ managerPc = "idle"
  /\ entry = "none"
  /\ retryAttempt = 0
  /\ apiCalls = 0
  /\ clock \in {1000 * t : t \in 0..MaxClockSeconds}
  /\ sleeps = <<>>
  /\ rateLimitError = None
  /\ managerRet = None
  /\ ConcurrentIdle
  /\ PipelineIdle

\* the wait that handleRateLimit starts
StartWait(error) ==
  sleeps' = Append(sleeps, [attempt |-> retryAttempt, error |-> error,
                            until |-> clock + waitTime(error, clock)])

\* executeWithRateLimit up to the first await apiCall()
CallExecuteWithRateLimit ==
  /\ managerPc = "idle"
  /\ entry' = "executeWithRateLimit"
  /\ retryAttempt' = 1
  /\ managerPc' = IF 1 <= maxRetries THEN "apiCall" ELSE "resolved"
  /\ UNCHANGED <<apiCalls, clock, sleeps, rateLimitError, managerRet>>

\* apiCall() resolves: executeWithRateLimit returns its value
ApiCallResolves ==
  /\ managerPc = "apiCall"
  /\ apiCalls' = apiCalls + 1
  /\ managerPc' = "resolved"
  /\ UNCHANGED <<entry, retryAttempt, clock, sleeps, rateLimitError, managerRet>>

\* apiCall() rejects: the catch block, up to the await inside handleRateLimit
\* or the throw
ApiCallRejects(error) ==
  /\ managerPc = "apiCall"
  /\ apiCalls' = apiCalls + 1
  /\ rateLimitError' = Some(error)
  /\ IF AsksHandleRateLimit(error) /\ handleRateLimitWaits(error)
       THEN /\ managerPc' = "waiting"
            /\ StartWait(error)
       ELSE /\ managerPc' = "rejected"
            /\ UNCHANGED sleeps
  /\ UNCHANGED <<entry, retryAttempt, clock, managerRet>>

\* handleRateLimit called on its own, up to its await or its return false
CallHandleRateLimit(error) ==
  /\ managerPc = "idle"
  /\ entry' = "handleRateLimit"
  /\ rateLimitError' = Some(error)
  /\ IF handleRateLimitWaits(error)
       THEN /\ managerPc' = "waiting"
            /\ StartWait(error)
            /\ UNCHANGED managerRet
       ELSE /\ managerPc' = "resolved"
            /\ managerRet' = Some(FALSE)
            /\ UNCHANGED sleeps
  /\ UNCHANGED <<retryAttempt, apiCalls, clock>>

\* the timer of handleRateLimit fires: it resolves with true; inside
\* executeWithRateLimit the loop continues if attempts are left, else the
\* error is rethrown
TimerFires ==
  /\ managerPc = "waiting"
  /\ clock' = sleeps[Len(sleeps)].until
  /\ managerRet' = Some(TRUE)
  /\ IF entry = "handleRateLimit"
       THEN /\ managerPc' = "resolved"
            /\ UNCHANGED retryAttempt
       ELSE IF retryAttempt < maxRetries
         THEN /\ managerPc' = "apiCall"
              /\ retryAttempt' = retryAttempt + 1
         ELSE /\ managerPc' = "rejected"
              /\ UNCHANGED retryAttempt
  /\ UNCHANGED <<entry, apiCalls, sleeps, rateLimitError>>

NextManager ==
  \/ CallExecuteWithRateLimit /\ UNCHANGED <<graphVars, searchVars, solveVars, concurrentVars, pipelineVars>>
  \/ ApiCallResolves /\ UNCHANGED <<graphVars, searchVars, solveVars, concurrentVars, pipelineVars>>
  \/ (managerPc = "apiCall" /\ \E error \in ApiErrors :
        ApiCallRejects(error) /\ UNCHANGED <<graphVars, searchVars, solveVars, concurrentVars, pipelineVars>>)
  \/ (managerPc = "idle" /\ \E error \in ApiErrors :
        CallHandleRateLimit(error) /\ UNCHANGED <<graphVars, searchVars, solveVars, concurrentVars, pipelineVars>>)
  \/ TimerFires /\ UNCHANGED <<graphVars, searchVars, solveVars, concurrentVars, pipelineVars>>

SpecManager == InitManager /\ [][NextManager]_vars

\* a rate-limit error: its message says so and its status is one of the two
\* the manager tests for
IsRateLimitError(error) ==
  /\ MessageIncludesRateLimit(error)
  /\ error.status \in {403, 429}

\* C28: when an API call made through executeWithRateLimit fails with a
\* rate-limit error that carries a reset time, the manager waits until that
\* reset time and then re-issues the call, with at most 3 calls in total (so
\* it rethrows such an error only from the third call); an error that is not a
\* rate-limit error is rethrown without a wait.
C28_WaitsForResetThenRetries ==
  (entry = "executeWithRateLimit") =>
    /\ apiCalls <= maxRetries
    /\ \A i \in 1..Len(sleeps) : sleeps[i].until >= sleeps[i].error.reset[1] * 1000
    /\ (managerPc = "apiCall" /\ retryAttempt > 1) =>
         /\ sleeps # <<>>
         /\ clock >= sleeps[Len(sleeps)].until
    /\ (managerPc = "rejected" /\ IsRateLimitError(rateLimitError[1])
                               /\ rateLimitError[1].reset # None) =>
         apiCalls = maxRetries
    /\ (managerPc = "rejected" /\ ~IsRateLimitError(rateLimitError[1])) =>
         \A i \in 1..Len(sleeps) : sleeps[i].attempt # retryAttempt

\* ------------------------------------------------------------------------
\* Specification of concurrent findSolution invocations on one SolutionSearcher.
\* An invocation is the record of its locals: where it stands, its subtask,
\* the generator outcomes its iterations drew, its loop counter, its attempts
\* array, its lastFailureOutput, the failure output of the request it has in
\* flight, the requests it made and what it resolved with. The instance
\* fields (llmClient, maxAttempts, debug) are only read.
\* ------------------------------------------------------------------------
ConcurrentLlmOutcomes ==
  {[error |-> TRUE, text |-> {}]}
    \cup {[error |-> FALSE, text |-> t] :
            t \in {{"function", "export"}, {"function"}, {"short"}}}

\* what findSolution resolves with
SearchResult(attemptList) ==
  [attempts |-> attemptList, bestSolution |-> selectBestSolution(attemptList),
   searchComplete |-> TRUE, totalAttempts |-> Len(attemptList)]

\* findSolution up to the first await of its loop
StartedInvocation(shape, limit) ==
  [pc |-> IF LoopContinues(1, limit) THEN "attempting" ELSE "done",
   subtask |-> shape, responses |-> <<>>, attempt |-> 1, attempts |-> <<>>,
   lastFailureOutput |-> {}, sent |-> {}, requests |-> <<>>,
   result |-> IF LoopContinues(1, limit) THEN None ELSE Some(SearchResult(<<>>))]

\* one loop iteration of findSolution on its own locals, from the settling of
\* generateSolution to the next await or the return
IterationOf(inv, llm, limit) ==
  LET g == generateSolution(inv.subtask, llm, inv.attempt)
      validation == validateSolution(g.solution[1])
      pushed == IF g.threw
                  THEN [attempt |-> inv.attempt, solution |-> None,
                        validation |-> None, error |-> Some("message")]
                  ELSE [attempt |-> inv.attempt, solution |-> g.solution,
                        validation |-> Some(validation), error |-> None]
      newAttempts == Append(inv.attempts, pushed)
      break == IF g.threw THEN FALSE ELSE validation.isValid
      feedback == IF g.threw THEN inv.lastFailureOutput
                  ELSE IF validation.isValid THEN inv.lastFailureOutput
                  ELSE validation.failureReason
      continues == ~break /\ LoopContinues(inv.attempt + 1, limit)
  IN [pc |-> IF continues THEN "attempting" ELSE "done",
      subtask |-> inv.subtask,
      responses |-> Append(inv.responses, llm),
      attempt |-> IF break THEN inv.attempt ELSE inv.attempt + 1,
      attempts |-> newAttempts,
      lastFailureOutput |-> feedback,
      sent |-> IF continues THEN feedback ELSE inv.sent,
      requests |-> IF g.llmCalled
                     THEN Append(inv.requests,
                                 [attempt |-> inv.attempt, failureOutput |-> inv.sent,
                                  rejected |-> llm.error])
                     ELSE inv.requests,
      result |-> IF continues THEN None ELSE Some(SearchResult(newAttempts))]

InitConcurrent ==
  /\ GraphIdle
  /\ SolveIdle
  /\ ManagerIdle
  /\ searchPc = "idle"
  /\ searchSubtask = "wellFormed"
  /\ maxAttempts \in 1..MaxConcurrentAttempts
  /\ attempt = 0
  /\ attempts = <<>>
  /\ lastFailureOutput = {}
  /\ llmRequests = <<>>
  /\ generateCalls = 0
  /\ result = None
  /\ invocations = [i \in Invocations |-> IdleInvocation]
  /\ PipelineIdle

\* findSolution is called while others may be in flight
ConcurrentFindSolution(i, shape) ==
  /\ invocations[i].pc = "idle"
  /\ invocations' = [invocations EXCEPT ![i] = StartedInvocation(shape, maxAttempts)]

\* the try body with lastFailureOutput kept in a field of the instance: the
\* failure reason is seen by every invocation
ResponseValidated_sharedFeedback(i, llm) ==
  LET after == IterationOf(invocations[i], llm, maxAttempts)
  IN /\ invocations[i].pc = "attempting"
     /\ ~generateSolution(invocations[i].subtask, llm, invocations[i].attempt).threw
     /\ invocations' =
          [j \in Invocations |->
             IF j = i THEN after
             ELSE [invocations[j] EXCEPT !.lastFailureOutput = after.lastFailureOutput]]

\* the generateSolution call of invocation i resolves: its try body runs
ResponseValidated(i, llm) ==
  /\ invocations[i].pc = "attempting"
  /\ ~generateSolution(invocations[i].subtask, llm, invocations[i].attempt).threw
  /\ invocations' =
       [invocations EXCEPT ![i] = IterationOf(invocations[i], llm, maxAttempts)]

\* the generateSolution call of invocation i rejects: its catch block runs
ResponseFailed(i, llm) ==
  /\ invocations[i].pc = "attempting"
  /\ generateSolution(invocations[i].subtask, llm, invocations[i].attempt).threw
  /\ invocations' =
       [invocations EXCEPT ![i] = IterationOf(invocations[i], llm, maxAttempts)]

NextConcurrent ==
  \/ \E i \in Invocations : \E shape \in SubtaskShapes :
       ConcurrentFindSolution(i, shape)
         /\ UNCHANGED <<graphVars, searchVars, solveVars, managerVars, pipelineVars>>
  \/ \E i \in Invocations : \E llm \in ConcurrentLlmOutcomes :
       ResponseValidated(i, llm)
         /\ UNCHANGED <<graphVars, searchVars, solveVars, managerVars, pipelineVars>>
  \/ \E i \in Invocations : \E llm \in ConcurrentLlmOutcomes :
       ResponseFailed(i, llm)
         /\ UNCHANGED <<graphVars, searchVars, solveVars, managerVars, pipelineVars>>

SpecConcurrent == InitConcurrent /\ [][NextConcurrent]_vars

\* findSolution run alone on a subtask, through the iterations that drew the
\* given generator outcomes
RECURSIVE Alone(_, _, _)
Alone(shape, responses, limit) ==
  IF responses = <<>> THEN StartedInvocation(shape, limit)
  ELSE IterationOf(Alone(shape, SubSeq(responses, 1, Len(responses) - 1), limit),
                   responses[Len(responses)], limit)

C31_SuccessRate ==
  [][(workflowState'.summary # None /\ workflowState'.summary # workflowState.summary) =>
       LET solved == Len(workflowState'.solutions)
           total == Len(workflowState'.subIssues)
           rate == workflowState'.summary[1].successRate
       IN /\ total > 0
          /\ (2 * rate - 1) * total <= 200 * solved
          /\ 200 * solved < (2 * rate + 1) * total]_vars

\* C31 witness: 1 solution for 2 sub-issues gives 50
C31_Witness ==
  /\ workflowState.summary # None
  /\ Len(workflowState.solutions) = 1
  /\ Len(workflowState.subIssues) = 2
  /\ workflowState.summary[1].successRate = 50

\* C36: if reset() is called while a solve() is still in flight, the state
\* stays at the reset initial state until a new solve() is started (solve()
\* sets currentTask, only reset() clears it: a cleared currentTask away from
\* idle means a reset in flight and no solve() since).
C36_ResetStateStaysReset ==
  (currentTask = None /\ solvePc # "idle") => workflowState = ResetWorkflowState

\* the number of decomposed subtasks on record
DecomposedCount(ws) ==
  IF ws.decomposition = None THEN 0 ELSE Len(ws.decomposition[1].subtasks)

\* C39: at every point of a run started from a fresh or reset state, number
\* of solutions <= number of tests <= number of sub-issues <= number of
\* decomposed subtasks; and whenever phase is completed, at least one solution
\* is recorded and composition is non-null.
C39_CountsOrdered ==
  /\ Len(workflowState.solutions) <= Len(workflowState.tests)
  /\ Len(workflowState.tests) <= Len(workflowState.subIssues)
  /\ Len(workflowState.subIssues) <= DecomposedCount(workflowState)
  /\ (workflowState.phase = "completed") =>
       /\ Len(workflowState.solutions) >= 1
       /\ workflowState.composition # None

\* C39 witness: a completed run with fewer solutions than tests and fewer
\* tests than decomposed subtasks
C39_Witness ==
  /\ workflowState.phase = "completed"
  /\ Len(workflowState.solutions) = 1
  /\ Len(workflowState.tests) = 1
  /\ Len(workflowState.subIssues) = 2
  /\ DecomposedCount(workflowState) = 2

\* the positions (batch, index) at which a subtask id occurs in the batches
PlacesOf(batches, id) ==
  {p \in (1..Len(batches)) \X (1..MaxSubtasks) :
     /\ p[2] <= Len(batches[p[1]])
     /\ batches[p[1]][p[2]].id = id}

\* C37: for every acyclic subtask set with distinct ids whose dependencies all
\* reference ids in the set, the batches returned by getParallelSubtasks form a
\* partition of the set: every subtask is in exactly one batch, every batch
\* member is a subtask of the set, and no batch is empty.
C37_BatchesPartition ==
  (/\ called = "getParallelSubtasks"
   /\ ~HasCycle(subtasks)
   /\ \A i \in 1..Len(subtasks) : Range(subtasks[i].dependencies) \subseteq IdsOf(subtasks)) =>
    /\ ~ret.threw
    /\ \A g \in 1..Len(ret.value) :
         /\ Len(ret.value[g]) > 0
         /\ IdsOf(ret.value[g]) \subseteq IdsOf(subtasks)
    /\ \A id \in IdsOf(subtasks) : Cardinality(PlacesOf(ret.value, id)) = 1

\* C37 witness: three subtasks, the first depending on the third, come back
\* in two batches
C37_Witness ==
  /\ called = "getParallelSubtasks"
  /\ ~ret.threw
  /\ Len(subtasks) = 3
  /\ subtasks[1].dependencies = <<3>>
  /\ subtasks[2].dependencies = <<>>
  /\ subtasks[3].dependencies = <<>>
  /\ Len(ret.value) = 2

\* ------------------------------------------------------------------------
\* Specification of Orchestrator.execute (src/js/src/orchestrator.js).
\* One action per await; the GitHub client, decomposer, test generator,
\* solution searcher and composer are collaborators whose calls resolve or
\* reject. A subtask is its position 1..execSubtasks in the decomposition.
\* ------------------------------------------------------------------------
ExecCall(fn, subtask, arg, outcome) ==
  [fn |-> fn, subtask |-> subtask, arg |-> arg, outcome |-> outcome]

\* the outcomes of an awaited githubClient.getApprovalStatus
ApprovalOutcomes == {"true", "false", "rejected"}

InitExecute ==
  /\ GraphIdle
  /\ SearchIdle
  /\ SolveIdle
  /\ ManagerIdle
  /\ ConcurrentIdle
  /\ ExecuteIdle
  /\ BatchIdle
  /\ ExistsIdle

\* after the loop without the check of subtaskSolutions.length
AfterLoop_alwaysCompose(solutions) ==
  execPc' = "composeAndCreateFinalPR"

\* after the loop: return when there is no solution, else call the composer
AfterLoop(solutions) ==
  execPc' = IF Len(solutions) = 0 THEN "resolved" ELSE "composeAndCreateFinalPR"

\* the end of an iteration (continue, the end of the try body, or the catch):
\* the next subtask, or the code after the loop
EndOfSubtask(solutions) ==
  /\ execIndex' = execIndex + 1
  /\ IF execIndex < execSubtasks
       THEN execPc' = "generateAndCreateTestPR"
       ELSE AfterLoop(solutions)

\* execute up to its first await
CallExecute(existingRepository, dry) ==
  /\ execPc = "idle"
  /\ dryRun' = dry
  /\ execPc' = IF existingRepository THEN "decomposeAndCreateIssues"
               ELSE "createTestRepository"
  /\ UNCHANGED <<execSubtasks, execIndex, subtaskSolutions, successCount, execCalls>>

CreateTestRepository(ok) ==
  /\ execPc = "createTestRepository"
  /\ execCalls' = Append(execCalls, ExecCall("createTestRepository", 0, "none",
                                             IF ok THEN "resolved" ELSE "rejected"))
  /\ execPc' = IF ok THEN "decomposeAndCreateIssues" ELSE "rejected"
  /\ UNCHANGED <<dryRun, execSubtasks, execIndex, subtaskSolutions, successCount>>

\* decomposeAndCreateIssues rejects: execute rejects
DecomposeAndCreateIssuesRejects ==
  /\ execPc = "decomposeAndCreateIssues"
  /\ execCalls' = Append(execCalls,
                         ExecCall("decomposeAndCreateIssues", 0, "none", "rejected"))
  /\ execPc' = "rejected"
  /\ UNCHANGED <<dryRun, execSubtasks, execIndex, subtaskSolutions, successCount>>

\* decomposeAndCreateIssues resolves with n subtasks: the loop starts
DecomposeAndCreateIssues(n) ==
  /\ execPc = "decomposeAndCreateIssues"
  /\ execCalls' = Append(execCalls,
                         ExecCall("decomposeAndCreateIssues", 0, "none", "resolved"))
  /\ execSubtasks' = n
  /\ execIndex' = 1
  /\ subtaskSolutions' = <<>>
  /\ successCount' = 0
  /\ IF n > 0 THEN execPc' = "generateAndCreateTestPR" ELSE AfterLoop(<<>>)
  /\ UNCHANGED dryRun

GenerateAndCreateTestPR(ok) ==
  /\ execPc = "generateAndCreateTestPR"
  /\ execCalls' = Append(execCalls, ExecCall("generateAndCreateTestPR", execIndex, "none",
                                             IF ok THEN "resolved" ELSE "rejected"))
  /\ IF ok
       THEN /\ execPc' = IF dryRun THEN "searchAndCreateSolutionPR" ELSE "testApproval"
            /\ UNCHANGED execIndex
       ELSE EndOfSubtask(subtaskSolutions)
  /\ UNCHANGED <<dryRun, execSubtasks, subtaskSolutions, successCount>>

\* getApprovalStatus(testPR.prNumber) settles
TestApproval(outcome) ==
  /\ execPc = "testApproval"
  /\ execCalls' = Append(execCalls,
                         ExecCall("getApprovalStatus", execIndex, "test PR", outcome))
  /\ IF outcome = "true"
       THEN /\ execPc' = "searchAndCreateSolutionPR"
            /\ UNCHANGED execIndex
       ELSE EndOfSubtask(subtaskSolutions)
  /\ UNCHANGED <<dryRun, execSubtasks, subtaskSolutions, successCount>>

\* searchAndCreateSolutionPR settles; in dry-run mode the solution is pushed
SearchAndCreateSolutionPR(ok) ==
  LET pushed == Append(subtaskSolutions, execIndex)
  IN /\ execPc = "searchAndCreateSolutionPR"
     /\ execCalls' = Append(execCalls,
                            ExecCall("searchAndCreateSolutionPR", execIndex, "none",
                                     IF ok THEN "resolved" ELSE "rejected"))
     /\ IF ~ok
          THEN /\ EndOfSubtask(subtaskSolutions)
               /\ UNCHANGED <<subtaskSolutions, successCount>>
          ELSE IF dryRun
            THEN /\ subtaskSolutions' = pushed
                 /\ successCount' = successCount + 1
                 /\ EndOfSubtask(pushed)
            ELSE /\ execPc' = "solutionApproval"
                 /\ UNCHANGED <<execIndex, subtaskSolutions, successCount>>
     /\ UNCHANGED <<dryRun, execSubtasks>>

\* the solution approval without its "continue": an unapproved solution is
\* pushed all the same
SolutionApproval_noContinue(outcome) ==
  LET pushed == Append(subtaskSolutions, execIndex)
  IN /\ execPc = "solutionApproval"
     /\ execCalls' = Append(execCalls,
                            ExecCall("getApprovalStatus", execIndex, "solution PR", outcome))
     /\ IF outcome # "rejected"
          THEN /\ subtaskSolutions' = pushed
               /\ successCount' = successCount + 1
               /\ EndOfSubtask(pushed)
          ELSE /\ EndOfSubtask(subtaskSolutions)
               /\ UNCHANGED <<subtaskSolutions, successCount>>
     /\ UNCHANGED <<dryRun, execSubtasks>>

\* getApprovalStatus(solutionPR.prNumber) settles; an approved solution is pushed
SolutionApproval(outcome) ==
  LET pushed == Append(subtaskSolutions, execIndex)
  IN /\ execPc = "solutionApproval"
     /\ execCalls' = Append(execCalls,
                            ExecCall("getApprovalStatus", execIndex, "solution PR", outcome))
     /\ IF outcome = "true"
          THEN /\ subtaskSolutions' = pushed
               /\ successCount' = successCount + 1
               /\ EndOfSubtask(pushed)
          ELSE /\ EndOfSubtask(subtaskSolutions)
               /\ UNCHANGED <<subtaskSolutions, successCount>>
     /\ UNCHANGED <<dryRun, execSubtasks>>

ComposeAndCreateFinalPR(ok) ==
  /\ execPc = "composeAndCreateFinalPR"
  /\ execCalls' = Append(execCalls, ExecCall("composeAndCreateFinalPR", 0, "none",
                                             IF ok THEN "resolved" ELSE "rejected"))
  /\ execPc' = IF ok THEN "cleanupTestRepository" ELSE "rejected"
  /\ UNCHANGED <<dryRun, execSubtasks, execIndex, subtaskSolutions, successCount>>

\* cleanupTestRepository(successCount === subtasks.length) settles
CleanupTestRepository(ok) ==
  /\ execPc = "cleanupTestRepository"
  /\ execCalls' = Append(execCalls,
                         ExecCall("cleanupTestRepository", 0,
                                  IF successCount = execSubtasks THEN "success = true"
                                  ELSE "success = false",
                                  IF ok THEN "resolved" ELSE "rejected"))
  /\ execPc' = IF ok THEN "resolved" ELSE "rejected"
  /\ UNCHANGED <<dryRun, execSubtasks, execIndex, subtaskSolutions, successCount>>

ExecuteFrame == UNCHANGED <<graphVars, searchVars, solveVars, managerVars, concurrentVars,
                            batchVars, existsVars>>

NextExecute ==
  \/ \E existingRepository \in BOOLEAN : \E dry \in BOOLEAN :
       CallExecute(existingRepository, dry) /\ ExecuteFrame
  \/ \E ok \in BOOLEAN : CreateTestRepository(ok) /\ ExecuteFrame
  \/ DecomposeAndCreateIssuesRejects /\ ExecuteFrame
  \/ \E n \in 0..MaxExecuteSubtasks : DecomposeAndCreateIssues(n) /\ ExecuteFrame
  \/ \E ok \in BOOLEAN : GenerateAndCreateTestPR(ok) /\ ExecuteFrame
  \/ \E outcome \in ApprovalOutcomes : TestApproval(outcome) /\ ExecuteFrame
  \/ \E ok \in BOOLEAN : SearchAndCreateSolutionPR(ok) /\ ExecuteFrame
  \/ \E outcome \in ApprovalOutcomes : SolutionApproval(outcome) /\ ExecuteFrame
  \/ \E ok \in BOOLEAN : ComposeAndCreateFinalPR(ok) /\ ExecuteFrame
  \/ \E ok \in BOOLEAN : CleanupTestRepository(ok) /\ ExecuteFrame

SpecExecute == InitExecute /\ [][NextExecute]_vars

\* whether a call with this method, subtask, argument and outcome has settled
ExecSettled(fn, subtask, arg, outcome) ==
  \E c \in 1..Len(execCalls) : execCalls[c] = ExecCall(fn, subtask, arg, outcome)

\* the settled calls of a method
ExecCallsOf(fn) == {c \in 1..Len(execCalls) : execCalls[c].fn = fn}

\* the subtasks whose solution was collected
Contributors == Range(subtaskSolutions)

\* C32: a subtask contributes a solution if and only if its test PR was
\* created, its test was approved (or dry-run is on), its solution PR was
\* created and its solution was approved (or dry-run is on); an error or a
\* rejection for one subtask never prevents the later subtasks from being
\* processed (execute only ends after the loop has reached every subtask, and
\* never rejects from inside the loop); and successCount always equals the
\* number of collected solutions.
C32_ContributesIffAllStepsPassed ==
  /\ \A k \in 1..execSubtasks :
       (k < execIndex) =>
         (k \in Contributors <=>
            /\ ExecSettled("generateAndCreateTestPR", k, "none", "resolved")
            /\ (dryRun \/ ExecSettled("getApprovalStatus", k, "test PR", "true"))
            /\ ExecSettled("searchAndCreateSolutionPR", k, "none", "resolved")
            /\ (dryRun \/ ExecSettled("getApprovalStatus", k, "solution PR", "true")))
  /\ (execPc \in {"composeAndCreateFinalPR", "cleanupTestRepository", "resolved"}) =>
       \A k \in 1..execSubtasks : ExecCallsOf("generateAndCreateTestPR") # {} /\
         \E c \in ExecCallsOf("generateAndCreateTestPR") : execCalls[c].subtask = k
  /\ (execPc = "rejected") =>
       execCalls[Len(execCalls)].fn \in
         {"createTestRepository", "decomposeAndCreateIssues", "composeAndCreateFinalPR",
          "cleanupTestRepository"}
  /\ successCount = Len(subtaskSolutions)
  /\ Cardinality(Contributors) = Len(subtaskSolutions)

\* C32 witness: without dry-run, the first subtask's solution was not approved
\* and the second subtask went through all four steps and contributed
C32_Witness ==
  /\ ~dryRun
  /\ execSubtasks = 2
  /\ ExecSettled("getApprovalStatus", 1, "solution PR", "false")
  /\ ExecSettled("getApprovalStatus", 2, "solution PR", "true")
  /\ subtaskSolutions = <<2>>
  /\ successCount = 1

\* C33: execute invokes the composer exactly once when at least one subtask
\* yielded a solution and never otherwise; with zero solutions it resolves
\* without throwing.
C33_ComposerOnceIffSolutions ==
  /\ Cardinality(ExecCallsOf("composeAndCreateFinalPR")) <= 1
  /\ (ExecCallsOf("composeAndCreateFinalPR") # {}) => Len(subtaskSolutions) >= 1
  /\ (execPc = "composeAndCreateFinalPR") => Len(subtaskSolutions) >= 1
  /\ (execIndex > execSubtasks /\ Len(subtaskSolutions) >= 1) =>
       \/ execPc = "composeAndCreateFinalPR"
       \/ Cardinality(ExecCallsOf("composeAndCreateFinalPR")) = 1
  /\ (execIndex > execSubtasks /\ Len(subtaskSolutions) = 0) => execPc = "resolved"

\* C33 witness: both subtasks failed, execute resolved and the composer was
\* never called
C33_Witness ==
  /\ execPc = "resolved"
  /\ execSubtasks = 2
  /\ execIndex > execSubtasks
  /\ subtaskSolutions = <<>>
  /\ ExecCallsOf("composeAndCreateFinalPR") = {}

\* C35: every execute call that resolves normally has called
\* cleanupTestRepository exactly once, with success = true exactly when every
\* subtask was completed successfully.
C35_CleanupOnEveryNormalReturn ==
  (execPc = "resolved") =>
    /\ Cardinality(ExecCallsOf("cleanupTestRepository")) = 1
    /\ \A c \in ExecCallsOf("cleanupTestRepository") :
         (execCalls[c].arg = "success = true") <=> (successCount = execSubtasks)

\* ------------------------------------------------------------------------
\* Specification of SolutionSearcher.searchSolutionsForAllSubtasks
\* (src/js-poc-5/src/core/solutionSearcher.js). A subtask issue is its number;
\* a test result is the number of its subtask issue and its status.
\* ------------------------------------------------------------------------
TestStatuses == {"success", "failed"}

TestResultLists ==
  UNION {[1..n -> [number : 1..MaxBatchIssues, status : TestStatuses]] : n \in 0..MaxBatchIssues}

\* testResults.find(tr => tr.subtaskIssue.number === subtaskIssue.number)
FindTestResult(list, number) ==
  IF \E i \in 1..Len(list) : list[i].number = number
    THEN Some(list[CHOOSE i \in 1..Len(list) :
                     /\ list[i].number = number
                     /\ \A j \in 1..(i - 1) : list[j].number # number])
    ELSE None

InitBatch ==
  /\ GraphIdle
  /\ SearchIdle
  /\ SolveIdle
  /\ ManagerIdle
  /\ ConcurrentIdle
  /\ ExecuteIdle
  /\ ExistsIdle
  /\ batchPc = "idle"
  /\ \E n \in 0..MaxBatchIssues : subtaskIssues = [i \in 1..n |-> i]
  /\ testResults \in TestResultLists
  /\ batchIndex = 0
  /\ results = <<>>

\* the for-of loop moves on, or the function returns the results
NextSubtaskIssue ==
  IF batchIndex < Len(subtaskIssues)
    THEN /\ batchIndex' = batchIndex + 1
         /\ batchPc' = "iteration"
    ELSE /\ batchPc' = "returned"
         /\ UNCHANGED batchIndex

CallSearchSolutionsForAllSubtasks ==
  /\ batchPc = "idle"
  /\ results' = <<>>
  /\ NextSubtaskIssue
  /\ UNCHANGED <<subtaskIssues, testResults>>

\* the start of an iteration: the test result is looked up; without a
\* successful one the subtask is skipped
BeginIteration ==
  LET subtaskIssue == subtaskIssues[batchIndex]
      testResult == FindTestResult(testResults, subtaskIssue)
  IN /\ batchPc = "iteration"
     /\ IF testResult = None \/ testResult[1].status # "success"
          THEN /\ results' = Append(results, [subtaskIssue |-> subtaskIssue,
                                               status |-> "skipped"])
               /\ NextSubtaskIssue
          ELSE /\ batchPc' = "searchSolutionForSubtask"
               /\ UNCHANGED <<results, batchIndex>>
     /\ UNCHANGED <<subtaskIssues, testResults>>

\* searchSolutionForSubtask settles: a success result is pushed, or the catch
\* pushes a failed one
SearchSolutionForSubtask(ok) ==
  LET subtaskIssue == subtaskIssues[batchIndex]
  IN /\ batchPc = "searchSolutionForSubtask"
     /\ IF ok
          THEN /\ results' = Append(results, [subtaskIssue |-> subtaskIssue,
                                               status |-> "success"])
               /\ batchPc' = "updateSubtaskWithSolutionPR"
               /\ UNCHANGED batchIndex
          ELSE /\ results' = Append(results, [subtaskIssue |-> subtaskIssue,
                                               status |-> "failed"])
               /\ NextSubtaskIssue
     /\ UNCHANGED <<subtaskIssues, testResults>>

\* updateSubtaskWithSolutionPR settles: the iteration ends, or the catch
\* pushes a failed result
UpdateSubtaskWithSolutionPR(ok) ==
  LET subtaskIssue == subtaskIssues[batchIndex]
  IN /\ batchPc = "updateSubtaskWithSolutionPR"
     /\ results' = IF ok THEN results
                   ELSE Append(results, [subtaskIssue |-> subtaskIssue,
                                         status |-> "failed"])
     /\ NextSubtaskIssue
     /\ UNCHANGED <<subtaskIssues, testResults>>

BatchFrame == UNCHANGED <<graphVars, searchVars, solveVars, managerVars, concurrentVars,
                          executeVars, existsVars>>

NextBatch ==
  \/ CallSearchSolutionsForAllSubtasks /\ BatchFrame
  \/ BeginIteration /\ BatchFrame
  \/ \E ok \in BOOLEAN : SearchSolutionForSubtask(ok) /\ BatchFrame
  \/ \E ok \in BOOLEAN : UpdateSubtaskWithSolutionPR(ok) /\ BatchFrame

SpecBatch == InitBatch /\ [][NextBatch]_vars

\* C34: searchSolutionsForAllSubtasks returns exactly one result per subtask
\* issue, in input order, each with status success, skipped or failed,
\* whichever collaborator calls fail along the way.
C34_OneResultPerSubtask ==
  (batchPc = "returned") =>
    /\ Len(results) = Len(subtaskIssues)
    /\ \A i \in 1..Len(results) :
         /\ i <= Len(subtaskIssues) => results[i].subtaskIssue = subtaskIssues[i]
         /\ results[i].status \in {"success", "skipped", "failed"}

\* ------------------------------------------------------------------------
\* Specification of overlapping RepositoryManager.repositoryExists calls
\* ------------------------------------------------------------------------
\* how the awaited executeWithRateLimit settles: the repository is found, the
\* API answers 404, or another error is thrown
ExistsOutcomes == {"found", "404", "other error"}

InitExists ==
  /\ GraphIdle
  /\ SearchIdle
  /\ SolveIdle
  /\ ManagerIdle
  /\ ConcurrentIdle
  /\ ExecuteIdle
  /\ BatchIdle
  /\ suppressGlobalOctokitErrors = FALSE
  /\ existsCalls = [c \in ExistsCallers |-> [pc |-> "idle", prev |-> FALSE]]

\* repositoryExists up to its await: the flag is saved in prev and set
CallRepositoryExists(c) ==
  /\ existsCalls[c].pc = "idle"
  /\ existsCalls' = [existsCalls EXCEPT ![c] = [pc |-> "pending",
                                                 prev |-> suppressGlobalOctokitErrors]]
  /\ suppressGlobalOctokitErrors' = TRUE

\* the awaited call settles: return true, return false or rethrow, and the
\* finally block writes prev back
RepositoryExistsSettles(c, outcome) ==
  /\ existsCalls[c].pc = "pending"
  /\ existsCalls' = [existsCalls EXCEPT ![c].pc =
                        CASE outcome = "found" -> "returned true"
                          [] outcome = "404" -> "returned false"
                          [] OTHER -> "threw"]
  /\ suppressGlobalOctokitErrors' = existsCalls[c].prev

ExistsFrame == UNCHANGED <<graphVars, searchVars, solveVars, managerVars, concurrentVars,
                           executeVars, batchVars>>

NextExists ==
  \/ \E c \in ExistsCallers : CallRepositoryExists(c) /\ ExistsFrame
  \/ \E c \in ExistsCallers : \E outcome \in ExistsOutcomes :
       RepositoryExistsSettles(c, outcome) /\ ExistsFrame

SpecExists == InitExists /\ [][NextExists]_vars

\* C40: after all repositoryExists calls have completed, including calls that
\* overlap in time, the suppressGlobalOctokitErrors flag has the value it had
\* before the first of them began (false, as the constructor sets it).
C40_FlagRestored ==
  (\A c \in ExistsCallers : existsCalls[c].pc # "pending") =>
    suppressGlobalOctokitErrors = FALSE

====
